---- MODULE Spec2Model ----
(***************************************************************************)
(* A model of the Living Templates daemon (src/src/living_templates/core): *)
(* the content store and symlink manager (storage.py), node registration,  *)
(* instance creation and the per-type builders (daemon.py), the webhook    *)
(* trigger queue and its drain loop (daemon.py, storage.py), the program   *)
(* executor (executor.py) and the tail watcher (tail_watcher.py).          *)
(*                                                                         *)
(* Text is a sequence of tokens (a token stands for a run of characters;   *)
(* "\n" is a token of its own), so that concatenation, append and          *)
(* endswith are computed as the code computes them.                        *)
(***************************************************************************)
EXTENDS Integers, Sequences, FiniteSets, TLC

\* ------------------------------------------------------------------ bounds
MaxInstances  == 2      \* instances created in one behaviour
MaxBuilds     == 3      \* clock ticks in one behaviour (caps build_count, last_built)
MaxContentLen == 4      \* tokens in one output file (caps append/prepend growth)
MaxTriggers   == 2      \* webhook triggers recorded in one behaviour
MaxAppended   == 3      \* bytes appended to the tailed path in one behaviour
MaxInode      == 2      \* inode numbers the tailed path goes through
MaxSubmitted  == 2      \* coroutines submitted to the event loop and not yet run
MaxDbNow      == 1      \* seconds the database clock advances in one behaviour

\* ------------------------------------------------------------ option values
NoneV == [none |-> TRUE]
Some(v) == [none |-> FALSE, val |-> v]
IsNone(o) == o.none

\* -------------------------------------------------------------- hashing
\* hashlib.sha256(content).hexdigest(): a collision-free digest, kept as a
\* tagged value so that a blob's name never gives access to its content:
\* content is read back only through the store.
Sha256(content) == [sha256 |-> content]

\* hashlib.md5(content).hexdigest(): the NodeValue hash.
Md5(content) == [md5 |-> content]

\* ------------------------------------------------------------ node configs
\* Template parts: literal text or a {{ variable }}.
Lit(t) == [lit |-> TRUE, text |-> t]
Var(n) == [lit |-> FALSE, name |-> n]

\* InputSpec(type, default, source); "required" is not read by the builders.
InputSpec(n, t, d, s) == [name |-> n, type |-> t, default |-> d, source |-> s]

NodeConfig(ty, ins, outs, mode, tpl) ==
    [node_type |-> ty, inputs |-> ins, outputs |-> outs, output_mode |-> mode,
     template_content |-> tpl, script_path |-> NoneV, transform |-> NoneV]

\* "Hello {{ name }}" with a default for name, the four output modes.
CfgHello(mode) ==
    NodeConfig("template",
               <<InputSpec("name", "string", Some(<<"World">>), NoneV)>>,
               <<"greeting.txt">>, mode,
               Some(<<Lit("Hello "), Var("name")>>))

\* A config text whose frontmatter names a node type that does not exist.
CfgInvalid ==
    NodeConfig("templat",
               <<InputSpec("name", "string", Some(<<"World">>), NoneV)>>,
               <<"greeting.txt">>, "replace", NoneV)

\* The same template whose input has neither a default nor a source.
CfgRequired(ty) ==
    NodeConfig(ty,
               <<InputSpec("name", "string", NoneV, NoneV)>>,
               <<"greeting.txt">>, "replace",
               IF ty = "template" THEN Some(<<Lit("Hello "), Var("name")>>) ELSE NoneV)

\* A webhook node whose template renders the delivered payload.
CfgWebhook(mode) ==
    NodeConfig("webhook", <<>>, <<>>, mode,
               Some(<<Lit("hook "), Var("webhook_data")>>))

\* A program node: one required input, one declared output.
CfgProgram ==
    NodeConfig("program",
               <<InputSpec("name", "string", NoneV, NoneV)>>,
               <<"result.json">>, "replace", NoneV)

\* A tail node with an output mode and, optionally, a transform. The
\* transform "keep_b" stands for the code
\*     if line == "b": result = line
\* which sets result for the lines it keeps and for no other.
CfgTail(mode, transform) ==
    [NodeConfig("tail", <<>>, <<>>, mode, NoneV) EXCEPT !.transform = transform]

\* A program node that declares two outputs.
CfgProgramTwo ==
    NodeConfig("program",
               <<InputSpec("name", "string", NoneV, NoneV)>>,
               <<"summary.txt", "result.json">>, "replace", NoneV)

\* The same template with "name" declared as a file input.
CfgFileInput ==
    NodeConfig("template",
               <<InputSpec("name", "file", NoneV, NoneV)>>,
               <<"greeting.txt">>, "replace",
               Some(<<Lit("Hello "), Var("name")>>))

\* The same file input with the path /cwd/d.txt as its default.
CfgFileDefault ==
    NodeConfig("template",
               <<InputSpec("name", "file", Some(<<"/cwd/d.txt">>), NoneV)>>,
               <<"greeting.txt">>, "replace",
               Some(<<Lit("Hello "), Var("name")>>))

\* "Bye {{ name }}" in Append mode: the CfgHello config after an edit of its
\* template text and its output mode.
CfgBye ==
    NodeConfig("template",
               <<InputSpec("name", "string", Some(<<"World">>), NoneV)>>,
               <<"greeting.txt">>, "append",
               Some(<<Lit("Bye "), Var("name")>>))

\* NodeReference.parse_reference("@id_7a.greeting.txt"): the text before the
\* first "." is the node id, the rest the output name.
HelloReference == [node_id |-> "id_7a", output_name |-> "greeting.txt"]

\* A template that renders its input "name", which declares the greeting of
\* the CfgHello node as its source, with or without a default.
CfgSourced(default) ==
    NodeConfig("template",
               <<InputSpec("name", "string", default, Some(HelloReference))>>,
               <<"copy.txt">>, "replace",
               Some(<<Var("name")>>))

\* A program node whose config file is its own script (an executable file
\* with the YAML in its header): script_path names the config file, and the
\* input "name" is a file input.
CfgScript ==
    [NodeConfig("program",
                <<InputSpec("name", "file", NoneV, NoneV)>>,
                <<"result.json">>, "replace", NoneV)
     EXCEPT !.script_path = Some("/etc/p.yaml")]

\* ------------------------------------------------------------ file system
\* What an output path holds.
FsNone      == [kind |-> "none"]
FsLink(h)   == [kind |-> "link", target |-> h]
FsFile(c)   == [kind |-> "file", content |-> c]
FsDir       == [kind |-> "dir"]

OutPaths == {"out1", "out2"}

\* A path that is an existing directory when the daemon starts.
DirPaths == {"outdir"}

\* What a reader that opens the path sees: the complete text, or that the
\* path is missing, dangling or a directory.
ReadPath(fsv, storev, p) ==
    CASE fsv[p].kind = "none" -> [seen |-> "missing"]
      [] fsv[p].kind = "dir"  -> [seen |-> "dir"]
      [] fsv[p].kind = "file" -> [seen |-> "text", text |-> fsv[p].content]
      [] fsv[p].kind = "link" ->
            IF fsv[p].target \in DOMAIN storev
            THEN [seen |-> "text", text |-> storev[fsv[p].target]]
            ELSE [seen |-> "dangling"]

\* Path.exists() follows symlinks; Path.is_symlink() does not.
PathExists(fsv, storev, p) ==
    \/ fsv[p].kind \in {"file", "dir"}
    \/ fsv[p].kind = "link" /\ fsv[p].target \in DOMAIN storev

IsSymlink(fsv, p) == fsv[p].kind = "link"

\* ---------------------------------------------------------- ContentStore
\* store_content: hash the content, write the blob only if no file of that
\* name exists, return (hash, path); the path is the blob of that name.
store_content(storev, content) ==
    LET h == Sha256(content) IN
    [hash  |-> h,
     wrote |-> h \notin DOMAIN storev,
     store |-> IF h \notin DOMAIN storev THEN storev @@ (h :> content) ELSE storev]

\* get_content: the blob's text, or None when no such file exists.
get_content(storev, h) ==
    IF h \in DOMAIN storev THEN Some(storev[h]) ELSE NoneV

\* ---------------------------------------------------------- SymlinkManager
\* Mutant: the unlink that raises on a directory has removed it.
create_symlink_unlink_removes_dir(fsv, storev, p) ==
    IF PathExists(fsv, storev, p) \/ IsSymlink(fsv, p)
    THEN [ok |-> fsv[p].kind # "dir", fs |-> [fsv EXCEPT ![p] = FsNone]]
    ELSE [ok |-> TRUE, fs |-> fsv]

\* create_symlink, first half: "if target.exists() or target.is_symlink():
\* target.unlink()"; unlink of a directory raises.
create_symlink_unlink(fsv, storev, p) ==
    IF PathExists(fsv, storev, p) \/ IsSymlink(fsv, p)
    THEN IF fsv[p].kind = "dir"
         THEN [ok |-> FALSE, fs |-> fsv]
         ELSE [ok |-> TRUE, fs |-> [fsv EXCEPT ![p] = FsNone]]
    ELSE [ok |-> TRUE, fs |-> fsv]

\* create_symlink, second half: target.symlink_to(content_path.resolve());
\* raises FileExistsError when something is at the target.
create_symlink_link(fsv, p, h) ==
    IF fsv[p].kind = "none"
    THEN [ok |-> TRUE, fs |-> [fsv EXCEPT ![p] = FsLink(h)]]
    ELSE [ok |-> FALSE, fs |-> fsv]

\* append_to_file: open(target, 'a') follows a symlink, so an append to a
\* path that is a symlink into the store is written into the blob.
append_to_file(fsv, storev, p, new) ==
    CASE fsv[p].kind = "none" ->
            [ok |-> TRUE, fs |-> [fsv EXCEPT ![p] = FsFile(new)], store |-> storev]
      [] fsv[p].kind = "file" ->
            [ok |-> TRUE, fs |-> [fsv EXCEPT ![p] = FsFile(fsv[p].content \o new)],
             store |-> storev]
      [] fsv[p].kind = "link" ->
            LET h == fsv[p].target IN
            [ok |-> TRUE, fs |-> fsv,
             store |-> IF h \in DOMAIN storev
                       THEN [storev EXCEPT ![h] = storev[h] \o new]
                       ELSE storev @@ (h :> new)]
      [] fsv[p].kind = "dir" ->
            [ok |-> FALSE, fs |-> fsv, store |-> storev]

\* prepend_to_file: read the existing text if target.exists(), then
\* open(target, 'w') and write new + existing, through a symlink as well.
prepend_to_file(fsv, storev, p, new) ==
    CASE fsv[p].kind = "none" ->
            [ok |-> TRUE, fs |-> [fsv EXCEPT ![p] = FsFile(new)], store |-> storev]
      [] fsv[p].kind = "file" ->
            [ok |-> TRUE, fs |-> [fsv EXCEPT ![p] = FsFile(new \o fsv[p].content)],
             store |-> storev]
      [] fsv[p].kind = "link" ->
            LET h == fsv[p].target IN
            [ok |-> TRUE, fs |-> fsv,
             store |-> IF h \in DOMAIN storev
                       THEN [storev EXCEPT ![h] = new \o storev[h]]
                       ELSE storev @@ (h :> new)]
      [] fsv[p].kind = "dir" ->
            [ok |-> FALSE, fs |-> fsv, store |-> storev]

\* remove_symlink: unlink only if the target is a symlink.
remove_symlink(fsv, p) ==
    IF IsSymlink(fsv, p) THEN [fsv EXCEPT ![p] = FsNone] ELSE fsv

\* Length of the text a path would hold after an append or prepend of new.
LenAfterWrite(fsv, storev, p, new) ==
    LET r == ReadPath(fsv, storev, p) IN
    Len(new) + (IF r.seen = "text" THEN Len(r.text) ELSE 0)

\* ---------------------------------------------------------- TemplateEngine
\* str(value) of a context value.
StrOf(v) == IF IsNone(v) THEN <<"None">> ELSE v.val

\* render(template_content, context): literals and substituted variables;
\* an undefined variable renders as the empty string.
RECURSIVE render(_, _)
render(parts, context) ==
    IF parts = <<>> THEN <<>>
    ELSE LET h == Head(parts) IN
         (IF h.lit THEN <<h.text>>
          ELSE IF h.name \in DOMAIN context THEN StrOf(context[h.name]) ELSE <<>>)
         \o render(Tail(parts), context)

\* content.endswith("\n")
EndsWithNewline(c) == Len(c) > 0 /\ c[Len(c)] = "\n"

\* ------------------------------------------------------------- Database
\* store_node: INSERT OR REPLACE keyed by the primary key id.
store_node(rows, node) == {r \in rows : r.id # node.id} \cup {node}

\* get_node: the row with that id, or None.
get_node(rows, node_id) ==
    IF \E r \in rows : r.id = node_id
    THEN Some(CHOOSE r \in rows : r.id = node_id)
    ELSE NoneV

\* get_node_value: the cached value of (node_id, output_name), or None.
get_node_value(nv, node_id, output_name) ==
    IF <<node_id, output_name>> \in DOMAIN nv
    THEN Some(nv[<<node_id, output_name>>]) ELSE NoneV

\* f with the key k bound to v (a dict assignment, an INSERT OR REPLACE row).
Put(f, k, v) == [x \in DOMAIN f \cup {k} |-> IF x = k THEN v ELSE f[x]]

\* f without the keys in ks (del, DELETE FROM ... WHERE).
Drop(f, ks) == [x \in DOMAIN f \ ks |-> f[x]]

\* ------------------------------------------------ _resolve_input_values
\* Mutant: an input with no value, source or default is bound to None.
RECURSIVE _resolve_input_values_lenient(_, _, _, _)
_resolve_input_values_lenient(inputs, input_values, nv, acc) ==
    IF inputs = <<>> THEN acc
    ELSE
      LET spec == Head(inputs)
          rest == Tail(inputs)
      IN
      IF spec.name \in DOMAIN input_values
      THEN _resolve_input_values_lenient(rest, input_values, nv,
              [acc EXCEPT !.context = Put(@, spec.name, Some(input_values[spec.name]))])
      ELSE _resolve_input_values_lenient(rest, input_values, nv,
              [acc EXCEPT !.context = Put(@, spec.name, spec.default)])

\* One pass over node.config.inputs in order: explicit value, else source
\* reference (a failed lookup logs a Warning and falls back to the default),
\* else default, else raise "Required input not provided".
RECURSIVE _resolve_input_values(_, _, _, _)
_resolve_input_values(inputs, input_values, nv, acc) ==
    IF inputs = <<>> THEN acc
    ELSE
      LET spec == Head(inputs)
          rest == Tail(inputs)
      IN
      IF spec.name \in DOMAIN input_values
      THEN _resolve_input_values(rest, input_values, nv,
              [acc EXCEPT !.context = Put(@, spec.name, Some(input_values[spec.name]))])
      ELSE IF ~IsNone(spec.source)
      THEN LET ref == spec.source.val
               got == get_node_value(nv, ref.node_id, ref.output_name)
           IN IF ~IsNone(got)
              THEN _resolve_input_values(rest, input_values, nv,
                      [acc EXCEPT !.context = Put(@, spec.name, Some(got.val.value_data))])
              ELSE _resolve_input_values(rest, input_values, nv,
                      [acc EXCEPT !.context = Put(@, spec.name, spec.default),
                                  !.warned = TRUE])
      ELSE IF ~IsNone(spec.default)
      THEN _resolve_input_values(rest, input_values, nv,
              [acc EXCEPT !.context = Put(@, spec.name, spec.default)])
      ELSE [acc EXCEPT !.ok = FALSE]

EmptyFn == [x \in {} |-> 0]
ResolveStart == [ok |-> TRUE, context |-> EmptyFn, warned |-> FALSE]

\* ===================================================================
\* State of the daemon
\* ===================================================================
VARIABLES
    cfg_files,       \* config file (absolute path) -> the NodeConfig its text parses to
    nodes,           \* table nodes: set of rows [id, config_path, config]
    db_instances,    \* table node_instances: instance id -> row
    node_instances,  \* daemon.node_instances: node id -> list of instance ids
    inst_mem,        \* the NodeInstance objects the lists refer to: id -> object
    node_values,     \* table node_values: <<node id, output name>> -> value
    symlinks,        \* table symlinks: target path -> [content_hash, node_instance_id]
    fs,              \* output paths: what each one holds
    store,           \* content store directory: blob name -> text of the file
    logs,            \* table execution_logs, as the set of [node_id, level, message]
    clock,           \* datetime.now(), advanced by every completed build
    next_inst,       \* the next uuid4 instance id
    pc,              \* where the control loop is inside the running handler
    frame,           \* the running handler's locals
    ev,              \* the last step taken and what it returned or raised
    hist,            \* what earlier calls returned (read by the properties only)
    proc,            \* the subprocess of the running execute_program
    tmpdir,          \* the TemporaryDirectory of the running execute_program
    webhook_triggers,\* table webhook_triggers, rows in insertion order
    drain,           \* the _process_webhooks task: where it is, the triggers it fetched
    tail_file,       \* the tailed file on disk: exists, inode, bytes
    tail_state,      \* TailWatcher: watched_files and callbacks of that path
    cwd,             \* Path.cwd() of the daemon process
    db_now,          \* CURRENT_TIMESTAMP of the database, in seconds
    watched_files,   \* FileWatcher.watched_files: file path -> list of node ids
    notifier,        \* the observer thread: where it is inside on_modified
    loop_queue,      \* coroutines submitted to the event loop and not yet run
    pid_file,        \* daemon.pid of the configuration directory: absent or a pid
    starters         \* the "daemon start" processes: pid -> where each one is

daemonVars == <<cfg_files, nodes, db_instances, node_instances, inst_mem, node_values,
                symlinks, fs, store, logs, clock, next_inst, pc, frame, ev, hist>>

execVars    == <<proc, tmpdir>>
webhookVars == <<webhook_triggers, drain>>
tailVars    == <<tail_file, tail_state>>
watchVars   == <<watched_files, notifier, loop_queue>>
startVars   == <<pid_file, starters>>
sideVars    == <<execVars, webhookVars, tailVars, cwd, db_now, watchVars, startVars>>

\* ------------------------------------------------------- config paths, ids
\* The directory the daemon is first started from, and the directories a
\* daemon process is started from.
StartDir == "/cwd"
Dirs == {"/cwd", "/srv"}

\* The spellings of config paths callers use; in /cwd, "t.yaml" and
\* "/cwd/t.yaml" name the same file.
ConfigPaths == {"t.yaml", "/cwd/t.yaml", "/etc/w.yaml", "/etc/p.yaml", "/etc/l.yaml"}

\* The file a spelling names for a process whose working directory is dir.
ResolveIn(dir, p) ==
    CASE p = "t.yaml" /\ dir = "/cwd" -> "/cwd/t.yaml"
      [] p = "t.yaml" /\ dir = "/srv" -> "/srv/t.yaml"
      [] p = "d.txt"  /\ dir = "/cwd" -> "/cwd/d.txt"
      [] p = "d.txt"  /\ dir = "/srv" -> "/srv/d.txt"
      [] OTHER                        -> p

\* Path.resolve() in the daemon process.
ResolvePath(p) == ResolveIn(cwd, p)

\* config_path.relative_to(Path.cwd()), str(config_path) on the ValueError
\* that a path outside the working directory, or a relative path, raises.
RelativeToCwd(p) ==
    CASE p = "/cwd/t.yaml" /\ cwd = "/cwd" -> "t.yaml"
      [] p = "/srv/t.yaml" /\ cwd = "/srv" -> "t.yaml"
      [] OTHER                             -> p

\* hashlib.md5(path_str).hexdigest()[:12], one id per distinct string.
Md5Hex12(s) ==
    CASE s = "t.yaml"      -> "id_7a"
      [] s = "/cwd/t.yaml" -> "id_c4"
      [] s = "/etc/w.yaml" -> "id_e9"
      [] s = "/etc/p.yaml" -> "id_3b"
      [] s = "/etc/l.yaml" -> "id_5d"
      [] OTHER             -> "id_00"

_generate_node_id(config_path) == Md5Hex12(RelativeToCwd(config_path))

\* The input files on disk, and the path a one-token input value spells.
DataFiles == {"/cwd/d.txt"}
PathOf(value) == value[1]

\* The tail of the loop body of _resolve_input_values: the value of an input
\* of type "file" becomes the resolved path when that file exists.
ResolveFileInputs(inputs, context) ==
    [n \in DOMAIN context |->
        IF /\ \E k \in 1..Len(inputs) : inputs[k].name = n /\ inputs[k].type = "file"
           /\ ~IsNone(context[n])
           /\ ResolvePath(PathOf(context[n].val)) \in DataFiles
        THEN Some(<<ResolvePath(PathOf(context[n].val))>>)
        ELSE context[n]]


Log(n, level, message) == [node_id |-> n, level |-> level, message |-> message]

NoCur == [content |-> NoneV, hash |-> NoneV, symlink |-> FALSE, context |-> EmptyFn,
          pre_fs |-> FsNone, pre_read |-> [seen |-> "missing"], pre_nv |-> EmptyFn,
          pre_inst |-> NoneV, output_files |-> <<>>, produced |-> EmptyFn]

\* pre_out, pre_read, pre_nv, pre_inst: the output path, what a reader of it
\* sees, the NodeValues and the instance object when the build of the current
\* instance started.
IdleFrame == [op |-> "none", node |-> NoneV, todo |-> <<>>, cur |-> NoCur,
              pre_out |-> FsNone, pre_read |-> [seen |-> "missing"], pre_nv |-> EmptyFn,
              pre_inst |-> NoneV]

\* tail: of the current tail watch, whether its last poll found the file
\* truncated, the number of terminated lines the file had when the watch was
\* armed, the lines handed to the callbacks since, and the nodes that have
\* armed a watch on the path and not disarmed it.
NoTailHist == [trunc |-> FALSE, n0 |-> 0, delivered |-> <<>>, armed |-> {}]

\* race: the instance ids and output paths of the nodes that unregister_node
\* removed while a build of them was suspended.
NoRace == [instances |-> {}, outputs |-> {}]

NoHist == [reg |-> EmptyFn, stored |-> EmptyFn, last |-> EmptyFn, applied |-> EmptyFn,
           tail |-> NoTailHist, race |-> NoRace]

\* The observer thread outside on_modified. read: whether the thread has
\* evaluated an expression on FileWatcher.watched_files; orphan: the list it
\* iterates is no longer the one the registry holds; seen: the node ids the
\* registry held for the path when on_modified tested it; sent: the node ids
\* on_modified has submitted a coroutine for.
IdleNotifier == [pc |-> "idle", path |-> NoneV, idx |-> 0, orphan |-> FALSE, read |-> FALSE,
                 seen |-> <<>>, sent |-> <<>>]

\* The processes that may run "daemon start" on the configuration directory,
\* and one of them before it has run.
Pids == {1, 2}
NotStarted == [pc |-> "none", port |-> 0]

\* The state after LivingTemplatesDaemon() and initialize() on an empty
\* configuration directory; files holds the config files on disk.
DaemonInit(files) ==
    /\ cwd = StartDir
    /\ db_now = 0
    /\ cfg_files = files
    /\ nodes = {}
    /\ db_instances = EmptyFn
    /\ node_instances = EmptyFn
    /\ inst_mem = EmptyFn
    /\ node_values = EmptyFn
    /\ symlinks = EmptyFn
    /\ fs = [p \in OutPaths \cup DirPaths |-> IF p \in DirPaths THEN FsDir ELSE FsNone]
    /\ store = EmptyFn
    /\ logs = {}
    /\ clock = 0
    /\ next_inst = 1
    /\ pc = "idle"
    /\ frame = IdleFrame
    /\ ev = [kind |-> "init"]
    /\ hist = NoHist
    /\ watched_files = EmptyFn
    /\ notifier = IdleNotifier
    /\ loop_queue = <<>>
    /\ pid_file = NoneV
    /\ starters = [p \in Pids |-> NotStarted]

\* No subprocess, no temporary directory.
NoProc == [state |-> "none", killed |-> FALSE, returncode |-> NoneV]
NoTmp  == [exists |-> FALSE, files |-> EmptyFn]

ExecInit ==
    /\ proc = NoProc
    /\ tmpdir = NoTmp

\* The drain task between two polls, with nothing fetched.
IdleDrain == [pc |-> "sleep", triggers |-> <<>>]

WebhookInit ==
    /\ webhook_triggers = <<>>
    /\ drain = IdleDrain

\* TailWatcher() with no watched file.
NoTailState == [watched |-> FALSE, node_id |-> NoneV, last_position |-> 0,
                last_inode |-> NoneV, buffer |-> <<>>, callbacks |-> <<>>]

TailInit(file) ==
    /\ tail_file = file
    /\ tail_state = NoTailState

\* appended counts the bytes written to the path since the daemon started.
NoFile == [exists |-> FALSE, inode |-> 0, content |-> <<>>, appended |-> 0]

\* The instance the builder is working on.
CurId   == Head(frame.todo)
CurInst == inst_mem[CurId]
CurNode == frame.node.val
CurCfg  == CurNode.config
CurOut  == CurInst.output_path

\* ------------------------------------------------ the config file is edited
EditConfig(f, c) ==
    /\ pc = "idle"
    /\ cfg_files[f] # c
    /\ cfg_files' = [cfg_files EXCEPT ![f] = c]
    /\ ev' = [kind |-> "edit"]
    /\ UNCHANGED <<nodes, db_instances, node_instances, inst_mem, node_values, symlinks,
                   fs, store, logs, clock, next_inst, pc, frame, hist>>
    /\ UNCHANGED sideVars

SeqToSet(q) == {q[k] : k \in 1..Len(q)}

\* -------------------------------------------------------------- FileWatcher
\* FileWatcher.add_file_watch: a list for a new path, the node id appended
\* unless the list has it.
FileWatcher_add_file_watch(reg, file_path, node_id) ==
    IF file_path \notin DOMAIN reg THEN reg @@ (file_path :> <<node_id>>)
    ELSE IF node_id \in SeqToSet(reg[file_path]) THEN reg
    ELSE [reg EXCEPT ![file_path] = Append(@, node_id)]

\* FileWatcher.remove_file_watch: the node id removed from the list, and the
\* path deleted once its list is empty.
FileWatcher_remove_file_watch(reg, file_path, node_id) ==
    IF file_path \notin DOMAIN reg THEN reg
    ELSE LET rest == SelectSeq(reg[file_path], LAMBDA n : n # node_id) IN
         IF rest = <<>> THEN [x \in DOMAIN reg \ {file_path} |-> reg[x]]
         ELSE [reg EXCEPT ![file_path] = rest]

\* _setup_node_watchers in a process whose working directory is dir: the
\* config file of a node is watched if it exists, except that of a program
\* node whose script_path resolves to the config file itself.
SetupNodeWatchersIn(reg, dir, node) ==
    LET f == ResolveIn(dir, node.config_path) IN
    IF f \notin DOMAIN cfg_files THEN reg
    ELSE IF /\ node.config.node_type = "program"
            /\ ~IsNone(node.config.script_path)
            /\ ResolveIn(dir, node.config.script_path.val) = f
    THEN reg
    ELSE FileWatcher_add_file_watch(reg, f, node.id)

_setup_node_watchers(reg, node) == SetupNodeWatchersIn(reg, cwd, node)

\* _setup_file_watching in a process whose working directory is dir: every
\* input value of the instance whose declared type is "file" is watched under
\* its resolved path (no config of the model has input_mode tail).
RECURSIVE SetupFileWatchingIn(_, _, _, _, _)
SetupFileWatchingIn(reg, dir, node, instance, names) ==
    IF names = {} THEN reg
    ELSE LET n    == CHOOSE x \in names : TRUE
             file == \E k \in 1..Len(node.config.inputs) :
                        node.config.inputs[k].name = n /\ node.config.inputs[k].type = "file"
         IN SetupFileWatchingIn(
                IF file
                THEN FileWatcher_add_file_watch(
                         reg, ResolveIn(dir, PathOf(instance.input_values[n])), node.id)
                ELSE reg,
                dir, node, instance, names \ {n})

_setup_file_watching(reg, node, instance) ==
    SetupFileWatchingIn(reg, cwd, node, instance, DOMAIN instance.input_values)

\* The file-watch half of _remove_instance: for every input value whose
\* declared type is "file", remove_file_watch(input_value, node.id) with the
\* value as the instance holds it.
RECURSIVE RemoveInstanceWatches(_, _, _, _)
RemoveInstanceWatches(reg, node, instance, names) ==
    IF names = {} THEN reg
    ELSE LET n    == CHOOSE x \in names : TRUE
             file == \E k \in 1..Len(node.config.inputs) :
                        node.config.inputs[k].name = n /\ node.config.inputs[k].type = "file"
         IN RemoveInstanceWatches(
                IF file
                THEN FileWatcher_remove_file_watch(
                         reg, PathOf(instance.input_values[n]), node.id)
                ELSE reg,
                node, instance, names \ {n})

\* The registry after _remove_instance of every listed instance; nothing is
\* removed for an instance whose node has no row.
RECURSIVE RemoveAllInstanceWatches(_, _)
RemoveAllInstanceWatches(reg, ids) ==
    IF ids = <<>> THEN reg
    ELSE LET instance == inst_mem[Head(ids)]
             node     == get_node(nodes, instance.node_id)
         IN RemoveAllInstanceWatches(
                IF IsNone(node) THEN reg
                ELSE RemoveInstanceWatches(reg, node.val, instance,
                                           DOMAIN instance.input_values),
                Tail(ids))

\* The observer thread after the control loop has deleted paths from the
\* registry: a list the thread is iterating stays the (empty) list it was.
NotifierAfterDelete(before, after) ==
    IF notifier.pc = "iterate" /\ ~IsNone(notifier.path)
       /\ notifier.path.val \in DOMAIN before /\ notifier.path.val \notin DOMAIN after
    THEN [notifier EXCEPT !.orphan = TRUE]
    ELSE notifier

\* --------------------------------------------------------- a second passes
DbTick ==
    /\ db_now < MaxDbNow
    /\ db_now' = db_now + 1
    /\ ev' = [kind |-> "db_tick"]
    /\ UNCHANGED <<cfg_files, nodes, db_instances, node_instances, inst_mem, node_values,
                   symlinks, fs, store, logs, clock, next_inst, pc, frame, hist>>
    /\ UNCHANGED <<watchVars, startVars, cwd, execVars, webhookVars, tailVars>>

\* ------------------------------------------------------------ register_node
\* NodeType: the values NodeConfig accepts for node_type.
NodeTypes == {"template", "program", "file", "webhook", "manual", "tail"}

\* FrontmatterParser.parse_content raises ValueError when NodeConfig(**data)
\* fails validation: of c, the frontmatter data of a config text.
parse_content_raises(c) == c.node_type \notin NodeTypes

\* load_node_config(config_path) returns: the file exists and its text parses.
load_node_config_returns(config_path) ==
    /\ ResolvePath(config_path) \in DOMAIN cfg_files
    /\ ~parse_content_raises(cfg_files[ResolvePath(config_path)])

register_node(config_path) ==
    LET config  == cfg_files[ResolvePath(config_path)]
        node_id == _generate_node_id(config_path)
        node    == [id |-> node_id, config_path |-> config_path, config |-> config,
                    created_at |-> db_now]
        again   == config_path \in DOMAIN hist.reg
    IN
    /\ pc = "idle"
    /\ IF ~load_node_config_returns(config_path)
       THEN \* load_node_config raises FileNotFoundError or ValueError
            /\ ev' = [kind |-> "register_failed", path |-> config_path]
            /\ UNCHANGED <<nodes, logs, hist, watched_files>>
       ELSE /\ nodes' = store_node(nodes, node)
            /\ watched_files' = _setup_node_watchers(watched_files, node)
            /\ logs' = logs \cup {Log(node_id, "info", "Node registered")}
            /\ ev' = [kind |-> "register", path |-> config_path, id |-> node_id,
                      again |-> again,
                      prev |-> IF again THEN Some(hist.reg[config_path]) ELSE NoneV]
            /\ hist' = [hist EXCEPT !.reg = Put(@, config_path,
                             [id |-> node_id, between |-> {}, unregistered |-> FALSE])]
    /\ UNCHANGED <<cfg_files, db_instances, node_instances, inst_mem, node_values,
                   symlinks, fs, store, clock, next_inst, pc, frame>>
    /\ UNCHANGED <<execVars, webhookVars, tailVars, cwd, db_now, notifier, loop_queue,
                   startVars>>

\* --------------------------------------------------- the daemon is restarted
\* The orders in which a SELECT without ORDER BY returns the rows ids.
Orderings(ids) ==
    {q \in [1..Cardinality(ids) -> ids] :
        \A i, j \in 1..Cardinality(ids) : q[i] = q[j] => i = j}

\* get_node_instances(node_id): the rows of the node, in some order.
get_node_instances(node_id) ==
    Orderings({i \in DOMAIN db_instances : db_instances[i].node_id = node_id})

\* stop(), and in a new process started from directory dir
\* LivingTemplatesDaemon(), start(): _load_existing_state reads the instances of
\* every node row into node_instances; the tables, the store and the files
\* stay. No config of the model has input_mode tail, so no tail watch is armed
\* again; the new FileWatcher is given the file inputs of every instance row
\* and the config file of every node row that exists for the new working
\* directory, and the observer thread, the event loop and the webhook task
\* start afresh.
RECURSIVE SetupInstances(_, _, _, _)
SetupInstances(reg, dir, node, ids) ==
    IF ids = {} THEN reg
    ELSE LET i == CHOOSE x \in ids : TRUE IN
         SetupInstances(SetupFileWatchingIn(reg, dir, node, db_instances[i],
                                            DOMAIN db_instances[i].input_values),
                        dir, node, ids \ {i})

RECURSIVE SetupAll(_, _, _)
SetupAll(reg, rows, dir) ==
    IF rows = {} THEN reg
    ELSE LET r == CHOOSE x \in rows : TRUE
             w == SetupInstances(reg, dir, r,
                     {i \in DOMAIN db_instances : db_instances[i].node_id = r.id})
         IN SetupAll(SetupNodeWatchersIn(w, dir, r), rows \ {r}, dir)

RestartDaemon(dir) ==
    LET ids == {r.id : r \in nodes} IN
    /\ pc = "idle"
    /\ drain = IdleDrain
    /\ cwd' = dir
    /\ \E loaded \in [ids -> UNION {get_node_instances(n) : n \in ids}] :
          /\ \A n \in ids : loaded[n] \in get_node_instances(n)
          /\ node_instances' = loaded
          /\ inst_mem' = [i \in UNION {SeqToSet(loaded[n]) : n \in ids} |-> db_instances[i]]
    /\ tail_state' = NoTailState
    /\ watched_files' = SetupAll(EmptyFn, nodes, dir)
    /\ notifier' = IdleNotifier
    /\ loop_queue' = <<>>
    /\ ev' = [kind |-> "restart", dir |-> dir]
    /\ UNCHANGED <<cfg_files, nodes, db_instances, node_values, symlinks, fs, store,
                   logs, clock, next_inst, pc, frame, hist>>
    /\ UNCHANGED <<db_now, execVars, webhookVars, tail_file, startVars>>

\* ---------------------------------------------------------- unregister_node
\* _remove_instance for every instance of the list, del of the list, then
\* Database.remove_node and the closing _log.
RECURSIVE RemoveInstances(_, _)
RemoveInstances(ids, fsv) ==
    IF ids = <<>> THEN fsv
    ELSE RemoveInstances(Tail(ids), remove_symlink(fsv, inst_mem[Head(ids)].output_path))

\* What unregister_node leaves: the files, the index and the tables.
Unregistered(node_id) ==
    LET listed == IF node_id \in DOMAIN node_instances THEN node_instances[node_id] ELSE <<>>
        rows   == {i \in DOMAIN db_instances : db_instances[i].node_id = node_id}
    IN
    [rows           |-> rows,
     fs             |-> RemoveInstances(listed, fs),
     node_instances |-> Drop(node_instances, {node_id}),
     inst_mem       |-> Drop(inst_mem, SeqToSet(listed)),
     symlinks       |-> Drop(symlinks, {t \in DOMAIN symlinks :
                                          symlinks[t].node_instance_id \in rows}),
     node_values    |-> Drop(node_values, {k \in DOMAIN node_values : k[1] = node_id}),
     db_instances   |-> Drop(db_instances, rows),
     nodes          |-> {r \in nodes : r.id # node_id},
     logs           |-> {l \in logs : l.node_id # node_id}
                          \cup {Log(node_id, "info", "Node unregistered")},
     triggers       |-> SelectSeq(webhook_triggers, LAMBDA t : t.node_id # node_id),
     watched        |-> LET w == RemoveAllInstanceWatches(watched_files, listed) IN
                        IF \E r \in nodes : r.id = node_id
                        THEN LET r == CHOOSE x \in nodes : x.id = node_id IN
                             FileWatcher_remove_file_watch(
                                 w, ResolvePath(r.config_path), node_id)
                        ELSE w,
     reg            |-> [q \in DOMAIN hist.reg |->
                           IF hist.reg[q].id = node_id
                           THEN [hist.reg[q] EXCEPT !.unregistered = TRUE]
                           ELSE hist.reg[q]]]

unregister_node(node_id) ==
    LET u == Unregistered(node_id) IN
    /\ pc = "idle"
    /\ fs' = u.fs
    /\ node_instances' = u.node_instances
    /\ inst_mem' = u.inst_mem
    /\ symlinks' = u.symlinks
    /\ node_values' = u.node_values
    /\ db_instances' = u.db_instances
    /\ nodes' = u.nodes
    /\ logs' = u.logs
    /\ ev' = [kind |-> "unregister", node_id |-> node_id, instances |-> u.rows]
    /\ hist' = [hist EXCEPT !.reg = u.reg]
    /\ webhook_triggers' = u.triggers
    /\ watched_files' = u.watched
    /\ notifier' = NotifierAfterDelete(watched_files, u.watched)
    /\ UNCHANGED <<cfg_files, store, clock, next_inst, pc, frame>>
    /\ UNCHANGED <<loop_queue, startVars, cwd, db_now, execVars, drain, tailVars>>

\* The awaits of a build at which the event loop can run another coroutine:
\* the _log call that opens _build_instance, and the database calls that
\* follow the SymlinkManager's (synchronous) work.
SuspensionPoints == {"build", "finish"}

\* unregister_node(node_id) run by the event loop while the coroutine that
\* builds the node's instances is suspended at an await. The build keeps its
\* locals: the node, the list object its for loop iterates and the instance
\* objects of that list.
unregister_node_in_flight(node_id) ==
    LET u      == Unregistered(node_id)
        listed == IF node_id \in DOMAIN node_instances THEN node_instances[node_id] ELSE <<>>
        held   == SeqToSet(frame.todo)
    IN
    /\ pc \in SuspensionPoints
    /\ CurNode.id = node_id
    /\ fs' = u.fs
    /\ node_instances' = u.node_instances
    /\ inst_mem' = Drop(inst_mem, SeqToSet(listed) \ held)
    /\ symlinks' = u.symlinks
    /\ node_values' = u.node_values
    /\ db_instances' = u.db_instances
    /\ nodes' = u.nodes
    /\ logs' = u.logs
    /\ ev' = [kind |-> "unregister", node_id |-> node_id, instances |-> u.rows]
    /\ hist' = [hist EXCEPT !.reg = u.reg,
                            !.race = [instances |-> @.instances \cup u.rows \cup SeqToSet(listed),
                                      outputs   |-> @.outputs \cup
                                         {inst_mem[i].output_path : i \in SeqToSet(listed)}]]
    /\ webhook_triggers' = u.triggers
    /\ watched_files' = u.watched
    /\ notifier' = NotifierAfterDelete(watched_files, u.watched)
    /\ UNCHANGED <<cfg_files, store, clock, next_inst, pc, frame>>
    /\ UNCHANGED <<loop_queue, startVars, cwd, db_now, execVars, drain, tailVars>>

\* ---------------------------------------------------------- create_instance
create_instance(node_id, output_path, input_values) ==
    LET id       == next_inst
        instance == [id |-> id, node_id |-> node_id, input_values |-> input_values,
                     output_path |-> output_path, last_built |-> 0, build_count |-> 0]
        listed   == IF node_id \in DOMAIN node_instances THEN node_instances[node_id] ELSE <<>>
        node     == get_node(nodes, node_id)
    IN
    /\ pc = "idle"
    /\ next_inst <= MaxInstances
    /\ clock < MaxBuilds
    /\ next_inst' = next_inst + 1
    /\ db_instances' = Put(db_instances, id, instance)
    /\ node_instances' = Put(node_instances, node_id, Append(listed, id))
    /\ inst_mem' = Put(inst_mem, id, instance)
    /\ hist' = [hist EXCEPT !.reg = [q \in DOMAIN @ |->
                     IF @[q].id = node_id THEN [@[q] EXCEPT !.between = @ \cup {id}] ELSE @[q]]]
    /\ watched_files' = IF IsNone(node) THEN watched_files
                         ELSE _setup_file_watching(watched_files, node.val, instance)
    /\ IF ~IsNone(node)
       THEN /\ pc' = "build"
            /\ frame' = [IdleFrame EXCEPT !.op = "create", !.node = node, !.todo = <<id>>,
                                          !.pre_out = fs[output_path],
                                          !.pre_read = ReadPath(fs, store, output_path),
                                          !.pre_nv = node_values,
                                          !.pre_inst = Some(instance)]
            /\ ev' = [kind |-> "call", op |-> "create"]
            /\ UNCHANGED logs
       ELSE /\ logs' = logs \cup {Log(node_id, "info", "Instance created")}
            /\ ev' = [kind |-> "created", inst |-> id, node_id |-> node_id, built |-> FALSE]
            /\ UNCHANGED <<pc, frame>>
    /\ UNCHANGED <<cfg_files, nodes, node_values, symlinks, fs, store, clock>>
    /\ UNCHANGED <<execVars, webhookVars, tailVars, cwd, db_now, notifier, loop_queue,
                   startVars>>

\* --------------------------------------------------- rebuild_node_instances
rebuild_node_instances(node_id) ==
    LET node   == get_node(nodes, node_id)
        listed == IF node_id \in DOMAIN node_instances THEN node_instances[node_id] ELSE <<>>
    IN
    /\ pc = "idle"
    /\ clock + Len(listed) <= MaxBuilds
    /\ IF IsNone(node)
       THEN /\ ev' = [kind |-> "rebuilt", node_id |-> node_id, found |-> FALSE]
            /\ UNCHANGED <<pc, frame, logs>>
       ELSE IF listed = <<>>
       THEN /\ logs' = logs \cup {Log(node_id, "info", "Node instances rebuilt")}
            /\ ev' = [kind |-> "rebuilt", node_id |-> node_id, found |-> TRUE]
            /\ UNCHANGED <<pc, frame>>
       ELSE /\ pc' = "build"
            /\ frame' = [IdleFrame EXCEPT !.op = "rebuild", !.node = node, !.todo = listed,
                                          !.pre_out = fs[inst_mem[Head(listed)].output_path],
                                          !.pre_read = ReadPath(fs, store, inst_mem[Head(listed)].output_path),
                                          !.pre_nv = node_values,
                                          !.pre_inst = Some(inst_mem[Head(listed)])]
            /\ ev' = [kind |-> "call", op |-> "rebuild"]
            /\ UNCHANGED logs
    /\ UNCHANGED <<cfg_files, nodes, db_instances, node_instances, inst_mem, node_values,
                   symlinks, fs, store, clock, next_inst, hist>>
    /\ UNCHANGED sideVars

\* -------------------------------------------------------- handle_file_change
\* The file watcher's unit of work for a modified path that node_id watches;
\* file_path is the resolved path the watch was armed with.
\* A change of the node's config file (str(node.config_path) == file_path):
\* for a program node whose script_path resolves to that file, a Debug log and
\* return; otherwise
\* unregister_node, then register_node(node.config_path), any exception logged;
\* any other change: rebuild_node_instances. The coroutine is run by the event
\* loop: what becomes of loop_queue is said where it is started.
handle_file_change(node_id, file_path) ==
    LET node      == get_node(nodes, node_id)
        is_config == ~IsNone(node) /\ node.val.config_path = file_path
        u         == Unregistered(node_id)
        path      == node.val.config_path
        found     == load_node_config_returns(path)
        new       == [id |-> _generate_node_id(path), config_path |-> path,
                      config |-> cfg_files[ResolvePath(path)], created_at |-> db_now]
        listed    == IF node_id \in DOMAIN node_instances THEN node_instances[node_id] ELSE <<>>
        detected  == logs \cup {Log(node_id, "debug", "File change detected")}
        is_script == /\ is_config
                     /\ node.val.config.node_type = "program"
                     /\ ~IsNone(node.val.config.script_path)
                     /\ ResolvePath(node.val.config.script_path.val) = ResolvePath(file_path)
        before    == [kind |-> "file_change", node_id |-> node_id, file_path |-> file_path,
                      is_config_file |-> ~IsNone(node) /\ ResolvePath(path) = file_path,
                      pre_node |-> node,
                      pre_instances |-> [i \in u.rows |-> db_instances[i]]]
    IN
    /\ pc = "idle"
    /\ IF is_script
       THEN /\ logs' = detected \cup {Log(node_id, "debug", "Ignoring script file change")}
            /\ ev' = before @@ [reloaded |-> FALSE, done |-> TRUE, ignored |-> TRUE]
            /\ UNCHANGED <<pc, frame>>
            /\ UNCHANGED <<nodes, db_instances, node_instances, inst_mem, node_values,
                           symlinks, fs, hist, webhook_triggers, watched_files, notifier>>
       ELSE IF is_config
       THEN /\ fs' = u.fs
            /\ node_instances' = u.node_instances
            /\ inst_mem' = u.inst_mem
            /\ symlinks' = u.symlinks
            /\ node_values' = u.node_values
            /\ db_instances' = u.db_instances
            /\ webhook_triggers' = u.triggers
            /\ nodes' = IF found THEN store_node(u.nodes, new) ELSE u.nodes
            /\ logs' = u.logs \cup
                         (IF found
                          THEN {Log(new.id, "info", "Node registered"),
                                Log(node_id, "info", "Node reloaded due to config change")}
                          ELSE {Log(node_id, "error", "Failed to reload node")})
            /\ hist' = [hist EXCEPT !.reg =
                           IF found
                           THEN Put(u.reg, path, [id |-> new.id, between |-> {},
                                                  unregistered |-> FALSE])
                           ELSE u.reg]
            /\ watched_files' = IF found THEN _setup_node_watchers(u.watched, new)
                                 ELSE u.watched
            /\ notifier' = NotifierAfterDelete(watched_files, u.watched)
            /\ ev' = before @@ [reloaded |-> TRUE, done |-> TRUE, ignored |-> FALSE]
            /\ UNCHANGED <<pc, frame>>
       ELSE /\ clock + Len(listed) <= MaxBuilds
            /\ IF IsNone(node)
               THEN /\ logs' = detected
                    /\ ev' = before @@ [reloaded |-> FALSE, done |-> TRUE, ignored |-> FALSE]
                    /\ UNCHANGED <<pc, frame>>
               ELSE IF listed = <<>>
               THEN /\ logs' = detected \cup {Log(node_id, "info", "Node instances rebuilt")}
                    /\ ev' = before @@ [reloaded |-> FALSE, done |-> TRUE, ignored |-> FALSE]
                    /\ UNCHANGED <<pc, frame>>
               ELSE /\ logs' = detected
                    /\ pc' = "build"
                    /\ frame' = [IdleFrame EXCEPT
                                   !.op = "file_change", !.node = node, !.todo = listed,
                                   !.pre_out = fs[inst_mem[Head(listed)].output_path],
                                   !.pre_read = ReadPath(fs, store, inst_mem[Head(listed)].output_path),
                                   !.pre_nv = node_values,
                                   !.pre_inst = Some(inst_mem[Head(listed)])]
                    /\ ev' = before @@ [reloaded |-> FALSE, done |-> FALSE, ignored |-> FALSE]
            /\ UNCHANGED <<nodes, db_instances, node_instances, inst_mem, node_values,
                           symlinks, fs, hist, webhook_triggers, watched_files, notifier>>
    /\ UNCHANGED <<cfg_files, store, clock, next_inst>>
    /\ UNCHANGED <<startVars, cwd, db_now, execVars, drain, tailVars>>

\* ------------------------------------------------- FileWatcher.on_modified
\* The observer thread enters on_modified for a modified file and evaluates
\* "file_path in self.watched_files".
on_modified(file_path) ==
    /\ notifier.pc = "idle"
    /\ notifier' = IF file_path \in DOMAIN watched_files
                   THEN [notifier EXCEPT !.pc = "lookup", !.path = Some(file_path),
                                         !.read = TRUE,
                                         !.seen = watched_files[file_path], !.sent = <<>>]
                   ELSE [notifier EXCEPT !.read = TRUE]
    /\ ev' = [kind |-> "on_modified", file_path |-> file_path,
              tracked |-> file_path \in DOMAIN watched_files]
    /\ UNCHANGED <<watched_files, loop_queue>>
    /\ UNCHANGED <<cfg_files, nodes, db_instances, node_instances, inst_mem, node_values,
                   symlinks, fs, store, logs, clock, next_inst, pc, frame, hist>>
    /\ UNCHANGED <<execVars, webhookVars, tailVars, cwd, db_now, startVars>>

\* "for node_id in self.watched_files[file_path]": the subscript raises
\* KeyError when the control loop has deleted the path since the membership
\* test; the exception ends the observer thread.
on_modified_lookup ==
    /\ notifier.pc = "lookup"
    /\ IF notifier.path.val \in DOMAIN watched_files
       THEN /\ notifier' = [notifier EXCEPT !.pc = "iterate", !.idx = 1, !.orphan = FALSE]
            /\ ev' = [kind |-> "on_modified_list"]
       ELSE /\ notifier' = [notifier EXCEPT !.pc = "raised"]
            /\ ev' = [kind |-> "raise_notifier", err |-> "KeyError"]
    /\ UNCHANGED <<watched_files, loop_queue>>
    /\ UNCHANGED <<cfg_files, nodes, db_instances, node_instances, inst_mem, node_values,
                   symlinks, fs, store, logs, clock, next_inst, pc, frame, hist>>
    /\ UNCHANGED <<execVars, webhookVars, tailVars, cwd, db_now, startVars>>

\* One round of the for loop over the list object: the iterator reads the
\* list as it is now; for the next node id, run_coroutine_threadsafe hands
\* handle_file_change(node_id, file_path) to the event loop.
on_modified_next ==
    LET list == IF notifier.orphan THEN <<>> ELSE watched_files[notifier.path.val] IN
    /\ notifier.pc = "iterate"
    /\ IF notifier.idx > Len(list)
       THEN /\ notifier' = [IdleNotifier EXCEPT !.read = TRUE]
            /\ ev' = [kind |-> "on_modified_return", file_path |-> notifier.path.val,
                      seen |-> notifier.seen, sent |-> notifier.sent]
            /\ UNCHANGED loop_queue
       ELSE /\ Len(loop_queue) < MaxSubmitted
            /\ loop_queue' = Append(loop_queue, <<list[notifier.idx], notifier.path.val>>)
            /\ notifier' = [notifier EXCEPT !.idx = @ + 1,
                                            !.sent = Append(@, list[notifier.idx])]
            /\ ev' = [kind |-> "submitted", node_id |-> list[notifier.idx],
                      file_path |-> notifier.path.val]
    /\ UNCHANGED watched_files
    /\ UNCHANGED <<cfg_files, nodes, db_instances, node_instances, inst_mem, node_values,
                   symlinks, fs, store, logs, clock, next_inst, pc, frame, hist>>
    /\ UNCHANGED <<execVars, webhookVars, tailVars, cwd, db_now, startVars>>

\* The event loop runs the oldest submitted coroutine.
RunSubmitted ==
    /\ loop_queue # <<>>
    /\ handle_file_change(Head(loop_queue)[1], Head(loop_queue)[2])
    /\ loop_queue' = Tail(loop_queue)

\* ------------------------------------------------------ cli.py: daemon start
\* The --port values of the start attempts.
Ports == {8765, 8766}

\* os.kill(pid, 0) succeeds: the process has been started and has not ended.
ProcessExists(pid) ==
    starters[pid].pc \in {"read", "unlink", "starting", "serving", "running"}

\* TCPSite.start() raises when another process listens on the port.
PortInUse(port) ==
    \E q \in Pids : starters[q].pc \in {"serving", "running"} /\ starters[q].port = port

\* Every step of a start process leaves the daemon's own state alone.
StartStep(p, to, kind) ==
    /\ starters' = [starters EXCEPT ![p].pc = to]
    /\ ev' = [kind |-> kind, pid |-> p]
    /\ UNCHANGED <<cfg_files, nodes, db_instances, node_instances, inst_mem, node_values,
                   symlinks, fs, store, logs, clock, next_inst, pc, frame, hist>>
    /\ UNCHANGED <<execVars, webhookVars, tailVars, cwd, db_now, watchVars>>

\* "daemon start --port": the process begins and evaluates pid_file.exists().
cli_start(p, port) ==
    /\ starters[p].pc = "none"
    /\ starters' = [starters EXCEPT ![p] = [pc |-> IF IsNone(pid_file) THEN "starting"
                                                   ELSE "read",
                                            port |-> port]]
    /\ ev' = [kind |-> "start_exists", pid |-> p]
    /\ UNCHANGED pid_file
    /\ UNCHANGED <<cfg_files, nodes, db_instances, node_instances, inst_mem, node_values,
                   symlinks, fs, store, logs, clock, next_inst, pc, frame, hist>>
    /\ UNCHANGED <<execVars, webhookVars, tailVars, cwd, db_now, watchVars>>

\* pid = int(pid_file.read_text()); os.kill(pid, 0). A file that is gone
\* raises FileNotFoundError, an OSError like that of a dead process: the
\* except clause goes on to unlink it.
start_probe(p) ==
    /\ starters[p].pc = "read"
    /\ IF ~IsNone(pid_file) /\ ProcessExists(pid_file.val)
       THEN StartStep(p, "refused", "start_refused")
       ELSE StartStep(p, "unlink", "start_stale")
    /\ UNCHANGED pid_file

\* "pid_file.unlink()" of the except clause; unlink of a file that is gone
\* raises out of the command.
start_unlink(p) ==
    /\ starters[p].pc = "unlink"
    /\ IF IsNone(pid_file)
       THEN StartStep(p, "crashed", "start_crashed") /\ UNCHANGED pid_file
       ELSE StartStep(p, "starting", "start_unlinked") /\ pid_file' = NoneV

\* LivingTemplatesDaemon.start up to "self.running = True": initialize, the
\* API server on the port, the observer, the tail watcher, the webhook task.
\* A port in use makes start raise and the command exit with status 1.
daemon_start(p) ==
    /\ starters[p].pc = "starting"
    /\ IF PortInUse(starters[p].port)
       THEN StartStep(p, "failed", "start_failed")
       ELSE StartStep(p, "serving", "start_serving")
    /\ UNCHANGED pid_file

\* The last statement of LivingTemplatesDaemon.start: the PID file is written.
daemon_write_pid(p) ==
    /\ starters[p].pc = "serving"
    /\ StartStep(p, "running", "start_running")
    /\ pid_file' = Some(p)

\* The PID file after the signal handler of "daemon start": the handler
\* creates a task for LivingTemplatesDaemon.stop() and calls sys.exit(0) at
\* once, so the task is cancelled before its first step and stop() never
\* reaches its "pid_file.unlink()".
ShutdownPidFile(pf) == pf

\* The drain task after its cancellation: it takes no further step.
CancelledDrain == [pc |-> "cancelled", triggers |-> <<>>]

\* SIGINT or SIGTERM: signal_handler does asyncio.create_task(stop()) and
\* sys.exit(0). SystemExit leaves the event loop; asyncio.run then cancels
\* every task and waits for them: the webhook-drain task and the tail-watch
\* task leave their loops on CancelledError, the stop task ends without
\* having run, and the process exits.
daemon_stop(p) ==
    /\ starters[p].pc = "running"
    /\ starters' = [starters EXCEPT ![p].pc = "exited"]
    /\ pid_file' = ShutdownPidFile(pid_file)
    /\ drain' = CancelledDrain
    /\ ev' = [kind |-> "stopped", pid |-> p]
    /\ UNCHANGED <<cfg_files, nodes, db_instances, node_instances, inst_mem, node_values,
                   symlinks, fs, store, logs, clock, next_inst, pc, frame, hist>>
    /\ UNCHANGED <<execVars, webhook_triggers, tailVars, cwd, db_now, watchVars>>

\* The daemon process is killed: nothing is cleaned up.
daemon_killed(p) ==
    /\ starters[p].pc = "running"
    /\ StartStep(p, "exited", "killed")
    /\ UNCHANGED pid_file

\* ------------------------------------------------------------ _build_instance
\* The except clause of _build_instance: log at Error and re-raise; the
\* exception leaves create_instance / rebuild_node_instances to the caller.
RaiseBuild(err, lg) ==
    /\ logs' = lg \cup {Log(CurNode.id, "error", "Build failed")}
    /\ pc' = "idle"
    /\ frame' = IdleFrame
    /\ ev' = [kind |-> "raise", op |-> frame.op, err |-> err, inst |-> CurId,
              node_id |-> CurNode.id, config |-> CurCfg,
              input_values |-> CurInst.input_values, output_path |-> CurOut,
              pre_out |-> frame.pre_out, pre_nv |-> frame.pre_nv,
              pre_read |-> frame.pre_read, pre_inst |-> frame.pre_inst,
              rest |-> Tail(frame.todo)]

BuildLogs(r) ==
    logs \cup {Log(CurNode.id, "debug", "Building instance")}
         \cup (IF r.warned THEN {Log(CurNode.id, "warning", "Failed to resolve reference")}
               ELSE {})

CurStart(content, context) ==
    [NoCur EXCEPT !.content = Some(content), !.context = context,
                  !.pre_fs = fs[CurOut], !.pre_read = ReadPath(fs, store, CurOut),
                  !.pre_nv = node_values, !.pre_inst = Some(CurInst)]

\* The text a non-Replace mode hands to the SymlinkManager.
TextToWrite(mode, rendered) ==
    IF mode = "concatenate"
    THEN (IF ~EndsWithNewline(rendered) THEN <<"\n">> ELSE <<>>) \o rendered
    ELSE rendered

\* The SymlinkManager call of a non-Replace mode.
WriteByMode(mode, fsv, storev, p, text) ==
    IF mode = "prepend" THEN prepend_to_file(fsv, storev, p, text)
    ELSE append_to_file(fsv, storev, p, text)

\* _build_template_instance up to the SymlinkManager call: resolve, render,
\* and in Replace mode store_content; the other modes write the file here.
_build_template_instance ==
    LET r        == _resolve_input_values(CurCfg.inputs, CurInst.input_values,
                                          node_values, ResolveStart)
        template == IF IsNone(CurCfg.template_content) THEN <<>>
                    ELSE CurCfg.template_content.val
        context  == ResolveFileInputs(CurCfg.inputs, r.context)
        rendered == render(template, context)
        mode     == CurCfg.output_mode
        sc       == store_content(store, rendered)
        text     == TextToWrite(mode, rendered)
        w        == WriteByMode(mode, fs, store, CurOut, text)
        again    == rendered \in DOMAIN hist.stored
    IN
    /\ pc = "build"
    /\ CurCfg.node_type = "template"
    /\ IF ~r.ok
       THEN /\ RaiseBuild("required_input", BuildLogs(r))
            /\ UNCHANGED <<fs, store, hist>>
       ELSE IF mode = "replace"
       THEN /\ store' = sc.store
            /\ pc' = "unlink"
            /\ frame' = [frame EXCEPT !.cur = [CurStart(rendered, context) EXCEPT
                                                 !.hash = Some(sc.hash), !.symlink = TRUE]]
            /\ logs' = BuildLogs(r)
            /\ ev' = [kind |-> "store", content |-> rendered, hash |-> sc.hash,
                      wrote |-> sc.wrote, got |-> get_content(sc.store, sc.hash),
                      again |-> again,
                      first |-> IF again THEN Some(hist.stored[rendered]) ELSE NoneV]
            /\ hist' = IF again THEN hist
                       ELSE [hist EXCEPT !.stored = Put(@, rendered, sc.hash)]
            /\ UNCHANGED fs
       ELSE /\ LenAfterWrite(fs, store, CurOut, text) <= MaxContentLen
            /\ IF w.ok
               THEN /\ fs' = w.fs
                    /\ store' = w.store
                    /\ pc' = "finish"
                    /\ frame' = [frame EXCEPT !.cur = CurStart(rendered, context)]
                    /\ logs' = BuildLogs(r)
                    /\ ev' = [kind |-> "write", mode |-> mode]
               ELSE /\ RaiseBuild("io", BuildLogs(r))
                    /\ UNCHANGED <<fs, store>>
            /\ UNCHANGED hist
    /\ UNCHANGED <<cfg_files, nodes, db_instances, node_instances, inst_mem, node_values,
                   symlinks, clock, next_inst>>
    /\ UNCHANGED sideVars

\* create_symlink: the unlink of whatever is at the target ...
create_symlink_step1 ==
    LET u == create_symlink_unlink(fs, store, CurOut) IN
    /\ pc = "unlink"
    /\ fs' = u.fs
    /\ IF u.ok
       THEN /\ pc' = "link"
            /\ ev' = [kind |-> "unlink"]
            /\ UNCHANGED <<frame, logs>>
       ELSE RaiseBuild("io", logs)
    /\ UNCHANGED <<cfg_files, nodes, db_instances, node_instances, inst_mem, node_values,
                   symlinks, store, clock, next_inst, hist>>
    /\ UNCHANGED sideVars

\* ... and then symlink_to the blob.
create_symlink_step2 ==
    LET l == create_symlink_link(fs, CurOut, frame.cur.hash.val) IN
    /\ pc = "link"
    /\ IF l.ok
       THEN /\ fs' = l.fs
            /\ pc' = "finish"
            /\ ev' = [kind |-> "link"]
            /\ UNCHANGED <<frame, logs>>
       ELSE /\ RaiseBuild("io", logs)
            /\ UNCHANGED fs
    /\ UNCHANGED <<cfg_files, nodes, db_instances, node_instances, inst_mem, node_values,
                   symlinks, store, clock, next_inst, hist>>
    /\ UNCHANGED sideVars

\* The NodeValue rows a builder stores: one per declared output name.
RECURSIVE StoreValues(_, _, _, _)
StoreValues(nv, node_id, outputs, content) ==
    IF outputs = <<>> THEN nv
    ELSE StoreValues(Put(nv, <<node_id, Head(outputs)>>,
                         [value_hash |-> Md5(content), value_data |-> content]),
                     node_id, Tail(outputs), content)

\* Mutant: the build resets the counter instead of incrementing it.
BuiltInstance_reset(inst) ==
    [inst EXCEPT !.last_built = clock + 1, !.build_count = 1]

\* The instance record after "last_built = now(); build_count += 1".
BuiltInstance(inst) ==
    [inst EXCEPT !.last_built = clock + 1, !.build_count = @ + 1]

\* The rest of the build: store_symlink (Replace), the NodeValues, then
\* _build_instance's metadata update; the loop of rebuild_node_instances
\* goes on to the next instance, or the handler logs and returns.
BuildFinish ==
    LET cur     == frame.cur
        built   == BuiltInstance(CurInst)
        rest    == Tail(frame.todo)
        nv2     == IF CurCfg.node_type = "template"
                   THEN StoreValues(node_values, CurNode.id, CurCfg.outputs, cur.content.val)
                   ELSE node_values
        rebuilt == CurId \in DOMAIN hist.last
    IN
    /\ pc = "finish"
    /\ symlinks' = IF cur.symlink
                   THEN Put(symlinks, CurOut,
                            [content_hash |-> cur.hash.val, node_instance_id |-> CurId])
                   ELSE symlinks
    /\ node_values' = nv2
    /\ inst_mem' = [inst_mem EXCEPT ![CurId] = built]
    /\ db_instances' = Put(db_instances, CurId, built)
    /\ clock' = clock + 1
    /\ IF rest = <<>>
       THEN /\ pc' = "idle"
            /\ frame' = IdleFrame
            /\ logs' = logs \cup {Log(CurNode.id, "info",
                                      IF frame.op = "create" THEN "Instance created"
                                      ELSE "Node instances rebuilt")}
       ELSE /\ pc' = "build"
            /\ frame' = [frame EXCEPT !.todo = rest, !.cur = NoCur,
                                      !.pre_out = fs[inst_mem[Head(rest)].output_path],
                                      !.pre_read = ReadPath(fs, store, inst_mem[Head(rest)].output_path),
                                      !.pre_nv = nv2,
                                      !.pre_inst = Some(inst_mem[Head(rest)])]
            /\ UNCHANGED logs
    /\ ev' = [kind |-> "built", op |-> frame.op, op_done |-> rest = <<>>, inst |-> CurId,
              node_id |-> CurNode.id, config |-> CurCfg,
              input_values |-> CurInst.input_values, output_path |-> CurOut,
              content |-> cur.content, context |-> cur.context,
              pre_fs |-> cur.pre_fs, pre_nv |-> cur.pre_nv, pre_inst |-> cur.pre_inst,
              pre_out |-> frame.pre_out, op_pre_nv |-> frame.pre_nv,
              produced |-> cur.produced,
              rebuilt |-> rebuilt,
              last |-> IF rebuilt THEN Some(hist.last[CurId]) ELSE NoneV]
    /\ hist' = [hist EXCEPT !.last = Put(@, CurId,
                     [config |-> CurCfg, context |-> cur.context,
                      fs |-> fs[CurOut], nv |-> nv2])]
    /\ UNCHANGED <<cfg_files, nodes, node_instances, fs, store, next_inst>>
    /\ UNCHANGED sideVars

\* ------------------------------------------------ _build_webhook_instance
\* The locals of a builder that renders nothing.
CurSnapshot(context) ==
    [NoCur EXCEPT !.context = context,
                  !.pre_fs = fs[CurOut], !.pre_read = ReadPath(fs, store, CurOut),
                  !.pre_nv = node_values, !.pre_inst = Some(CurInst)]

\* _build_webhook_instance: a log line; the inputs are not resolved.
_build_webhook_instance ==
    /\ pc = "build"
    /\ CurCfg.node_type = "webhook"
    /\ pc' = "finish"
    /\ frame' = [frame EXCEPT !.cur = CurSnapshot(EmptyFn)]
    /\ logs' = logs \cup {Log(CurNode.id, "debug", "Building instance"),
                          Log(CurNode.id, "info", "Webhook instance ready")}
    /\ ev' = [kind |-> "ready"]
    /\ UNCHANGED <<cfg_files, nodes, db_instances, node_instances, inst_mem, node_values,
                   symlinks, fs, store, clock, next_inst, hist>>
    /\ UNCHANGED sideVars

\* ------------------------------------------------------ handle_tail_change
\* _build_tail_instance: _setup_file_watching once more, and a log line.
_build_tail_instance ==
    /\ pc = "build"
    /\ CurCfg.node_type = "tail"
    /\ pc' = "finish"
    /\ frame' = [frame EXCEPT !.cur = CurSnapshot(EmptyFn)]
    /\ watched_files' = _setup_file_watching(watched_files, CurNode, CurInst)
    /\ logs' = logs \cup {Log(CurNode.id, "debug", "Building instance"),
                          Log(CurNode.id, "info", "Tail instance ready")}
    /\ ev' = [kind |-> "ready"]
    /\ UNCHANGED <<cfg_files, nodes, db_instances, node_instances, inst_mem, node_values,
                   symlinks, fs, store, clock, next_inst, hist>>
    /\ UNCHANGED <<execVars, webhookVars, tailVars, cwd, db_now, notifier, loop_queue,
                   startVars>>

\* The transform run on each line, in a fresh environment per line: a line
\* is kept when the code has set "result".
RECURSIVE ApplyTransform(_, _)
ApplyTransform(transform, lines) ==
    IF lines = <<>> THEN <<>>
    ELSE (IF transform = "keep_b" /\ Head(lines) # <<"b">> THEN <<>> ELSE <<Head(lines)>>)
         \o ApplyTransform(transform, Tail(lines))

\* "\n".join(new_lines) + "\n"
RECURSIVE JoinLines(_)
JoinLines(lines) ==
    IF lines = <<>> THEN <<>>
    ELSE IF Len(lines) = 1 THEN lines[1]
    ELSE lines[1] \o <<"\n">> \o JoinLines(Tail(lines))

TailContent(lines) == JoinLines(lines) \o <<"\n">>

\* The loop over the instances of the node: Append and Prepend write the
\* block to the instance's output, the other modes write nothing; a write
\* that raises ends the loop.
RECURSIVE WriteTailLines(_, _, _, _, _)
WriteTailLines(mode, ids, content, fsv, storev) ==
    IF ids = <<>> \/ mode \notin {"append", "prepend"}
    THEN [ok |-> TRUE, fs |-> fsv, store |-> storev]
    ELSE LET w == WriteByMode(mode, fsv, storev, inst_mem[Head(ids)].output_path, content) IN
         IF ~w.ok THEN w
         ELSE WriteTailLines(mode, Tail(ids), content, w.fs, w.store)

\* handle_tail_change(node_id, new_lines), the callback of the tail watcher.
handle_tail_change(node_id, new_lines) ==
    LET node    == get_node(nodes, node_id)
        is_tail == ~IsNone(node) /\ node.val.config.node_type = "tail"
        lines   == IF is_tail /\ ~IsNone(node.val.config.transform)
                   THEN ApplyTransform(node.val.config.transform.val, new_lines)
                   ELSE new_lines
        ids     == IF node_id \in DOMAIN node_instances THEN node_instances[node_id] ELSE <<>>
        w       == IF is_tail
                   THEN WriteTailLines(node.val.config.output_mode, ids, TailContent(lines),
                                       fs, store)
                   ELSE [ok |-> TRUE, fs |-> fs, store |-> store]
    IN
    /\ pc = "idle"
    /\ logs' = logs \cup {Log(node_id, "debug", "Tail change detected")}
    /\ fs' = w.fs
    /\ store' = w.store
    /\ ev' = [kind |-> "tail_change", node_id |-> node_id, given |-> new_lines,
              lines |-> lines, is_tail |-> is_tail, raised |-> ~w.ok,
              pre_fs |-> fs, pre_store |-> store, pre_inst |-> inst_mem,
              pre_db |-> db_instances, pre_nv |-> node_values]
    /\ UNCHANGED <<cfg_files, nodes, db_instances, node_instances, inst_mem, node_values,
                   symlinks, clock, next_inst, pc, frame, hist>>
    /\ UNCHANGED sideVars

\* ------------------------------------------------ _build_program_instance
\* _build_program_instance up to the await of process.communicate():
\* resolve the inputs, enter "with tempfile.TemporaryDirectory()", spawn.
_build_program_instance ==
    LET r == _resolve_input_values(CurCfg.inputs, CurInst.input_values,
                                   node_values, ResolveStart)
    IN
    /\ pc = "build"
    /\ CurCfg.node_type = "program"
    /\ IF ~r.ok
       THEN /\ RaiseBuild("required_input", BuildLogs(r))
            /\ UNCHANGED <<proc, tmpdir>>
       ELSE /\ tmpdir' = [exists |-> TRUE, files |-> EmptyFn]
            /\ proc' = [state |-> "running", killed |-> FALSE, returncode |-> NoneV]
            /\ pc' = "communicate"
            /\ frame' = [frame EXCEPT !.cur = CurSnapshot(ResolveFileInputs(CurCfg.inputs, r.context))]
            /\ logs' = BuildLogs(r)
            /\ ev' = [kind |-> "spawn"]
    /\ UNCHANGED <<cfg_files, nodes, db_instances, node_instances, inst_mem, node_values,
                   symlinks, fs, store, clock, next_inst, hist>>
    /\ UNCHANGED <<watchVars, startVars, cwd, db_now, webhookVars, tailVars>>

\* The program writes a file into $LT_OUTPUT_DIR.
ProcessWrites(name, content) ==
    /\ proc.state = "running"
    /\ ~proc.killed
    /\ tmpdir.exists
    /\ name \notin DOMAIN tmpdir.files
    /\ tmpdir' = [tmpdir EXCEPT !.files = Put(@, name, content)]
    /\ ev' = [kind |-> "proc_write"]
    /\ UNCHANGED <<cfg_files, nodes, db_instances, node_instances, inst_mem, node_values,
                   symlinks, fs, store, logs, clock, next_inst, pc, frame, hist>>
    /\ UNCHANGED <<watchVars, startVars, cwd, db_now, proc, webhookVars, tailVars>>

\* The program ends: by itself with an exit code, or by the SIGKILL sent to it.
ProcessExits(code) ==
    /\ proc.state = "running"
    /\ proc' = [proc EXCEPT !.state = "exited",
                            !.returncode = Some(IF proc.killed THEN 0 - 9 ELSE code)]
    /\ ev' = [kind |-> "proc_exit"]
    /\ UNCHANGED <<cfg_files, nodes, db_instances, node_instances, inst_mem, node_values,
                   symlinks, fs, store, logs, clock, next_inst, pc, frame, hist>>
    /\ UNCHANGED <<watchVars, startVars, cwd, db_now, tmpdir, webhookVars, tailVars>>

\* Mutant: the signal is not sent.
process_kill_skipped(p) == p

\* process.kill(): SIGKILL to a process that has not been reaped.
process_kill(p) == IF p.state = "running" THEN [p EXCEPT !.killed = TRUE] ELSE p

\* Mutant: the temporary directory outlives the "with" block.
TemporaryDirectory_exit_keeps(t) == t
\* Leaving the "with" block removes the temporary directory and its files.
TemporaryDirectory_exit(t) == [exists |-> FALSE, files |-> EmptyFn]

\* asyncio.wait_for raises TimeoutError while the process is running; the
\* except clause calls process.kill() and awaits process.wait().
wait_for_timeout ==
    /\ pc = "communicate"
    /\ proc.state = "running"
    /\ proc' = process_kill(proc)
    /\ pc' = "wait"
    /\ ev' = [kind |-> "timeout"]
    /\ UNCHANGED <<cfg_files, nodes, db_instances, node_instances, inst_mem, node_values,
                   symlinks, fs, store, logs, clock, next_inst, frame, hist>>
    /\ UNCHANGED <<watchVars, startVars, cwd, db_now, tmpdir, webhookVars, tailVars>>

\* process.wait() returns once the process has ended and is reaped; then
\* "raise RuntimeError(timed out)" leaves the with block and both handlers.
process_wait ==
    /\ pc = "wait"
    /\ proc.state = "exited"
    /\ proc' = [proc EXCEPT !.state = "reaped"]
    /\ tmpdir' = TemporaryDirectory_exit(tmpdir)
    /\ RaiseBuild("timeout", logs)
    /\ UNCHANGED <<cfg_files, nodes, db_instances, node_instances, inst_mem, node_values,
                   symlinks, fs, store, clock, next_inst, hist>>
    /\ UNCHANGED <<watchVars, startVars, cwd, db_now, webhookVars, tailVars>>

\* The declared outputs found in the temporary directory, in declared order.
RECURSIVE CollectOutputFiles(_, _)
CollectOutputFiles(outputs, t) ==
    IF outputs = <<>> THEN <<>>
    ELSE (IF t.exists /\ Head(outputs) \in DOMAIN t.files THEN <<Head(outputs)>> ELSE <<>>)
         \o CollectOutputFiles(Tail(outputs), t)

\* process.communicate() returns: a non-zero return code raises
\* CalledProcessError; otherwise the output files are collected and
\* "return output_files, logs" leaves the with block.
communicate_returns ==
    /\ pc = "communicate"
    /\ proc.state = "exited"
    /\ proc' = [proc EXCEPT !.state = "reaped"]
    /\ tmpdir' = TemporaryDirectory_exit(tmpdir)
    /\ IF proc.returncode.val # 0
       THEN RaiseBuild("exit_code", logs)
       ELSE /\ pc' = "outputs"
            /\ frame' = [frame EXCEPT
                           !.cur.output_files = CollectOutputFiles(CurCfg.outputs, tmpdir),
                           !.cur.produced = tmpdir.files]
            /\ ev' = [kind |-> "returned"]
            /\ UNCHANGED logs
    /\ UNCHANGED <<cfg_files, nodes, db_instances, node_instances, inst_mem, node_values,
                   symlinks, fs, store, clock, next_inst, hist>>
    /\ UNCHANGED <<watchVars, startVars, cwd, db_now, webhookVars, tailVars>>

\* The Warning execute_program logs for each declared output it did not
\* find in the temporary directory; _build_program_instance stores the logs.
MissingOutputLogs(node_id, outputs, output_files) ==
    {Log(node_id, "warning", "Expected output file not found: " \o outputs[k]) :
        k \in {j \in 1..Len(outputs) : outputs[j] \notin SeqToSet(output_files)}}

\* output_file.exists() for a path inside the temporary directory.
OutputFileExists(t, name) == t.exists /\ name \in DOMAIN t.files

\* The NodeValue loop of _build_program_instance: output i of the config is
\* read from output_files[i] if that file exists, and the file is unlinked.
RECURSIVE StoreProgramValues(_, _, _, _, _, _)
StoreProgramValues(nv, t, node_id, outputs, output_files, i) ==
    IF i > Len(outputs) THEN [nv |-> nv, tmp |-> t]
    ELSE IF i <= Len(output_files) /\ OutputFileExists(t, output_files[i])
    THEN LET content == t.files[output_files[i]] IN
         StoreProgramValues(
            Put(nv, <<node_id, outputs[i]>>,
                [value_hash |-> Md5(content), value_data |-> content]),
            [t EXCEPT !.files = Drop(@, {output_files[i]})],
            node_id, outputs, output_files, i + 1)
    ELSE StoreProgramValues(nv, t, node_id, outputs, output_files, i + 1)

\* The single-output write of _build_program_instance: Replace stores the
\* content and links the output to it (unlink and symlink_to in one step
\* here), the other modes write through the SymlinkManager.
WriteProgramOutput(mode, fsv, storev, p, content) ==
    IF mode = "replace"
    THEN LET sc == store_content(storev, content)
             u  == create_symlink_unlink(fsv, sc.store, p)
             l  == create_symlink_link(u.fs, p, sc.hash)
         IN [ok |-> u.ok /\ l.ok, fs |-> l.fs, store |-> sc.store, hash |-> Some(sc.hash)]
    ELSE LET w == WriteByMode(mode, fsv, storev, p, TextToWrite(mode, content))
         IN [ok |-> w.ok, fs |-> w.fs, store |-> w.store, hash |-> NoneV]

\* _build_program_instance after execute_program has returned: the config
\* universe declares one output, so len(output_files) <= 1.
_build_program_outputs ==
    LET files == frame.cur.output_files
        have  == Len(files) = 1 /\ OutputFileExists(tmpdir, files[1])
        w     == WriteProgramOutput(CurCfg.output_mode, fs, store, CurOut,
                                    tmpdir.files[files[1]])
        sv    == StoreProgramValues(node_values, tmpdir, CurNode.id, CurCfg.outputs, files, 1)
    IN
    /\ pc = "outputs"
    /\ IF have /\ ~w.ok
       THEN /\ RaiseBuild("io", logs)
            /\ store' = w.store
            /\ UNCHANGED <<fs, node_values, tmpdir>>
       ELSE /\ fs' = IF have THEN w.fs ELSE fs
            /\ store' = IF have THEN w.store ELSE store
            /\ node_values' = sv.nv
            /\ tmpdir' = sv.tmp
            /\ pc' = "finish"
            /\ frame' = [frame EXCEPT
                           !.cur.content = IF have THEN Some(tmpdir.files[files[1]]) ELSE NoneV,
                           !.cur.hash = IF have THEN w.hash ELSE NoneV,
                           !.cur.symlink = have /\ CurCfg.output_mode = "replace"]
            /\ logs' = logs \cup {Log(CurNode.id, "info", "Starting program execution"),
                                  Log(CurNode.id, "info", "Program execution completed"),
                                  Log(CurNode.id, "info", "Program instance completed")}
                          \cup MissingOutputLogs(CurNode.id, CurCfg.outputs, files)
            /\ ev' = [kind |-> "outputs"]
    /\ UNCHANGED <<cfg_files, nodes, db_instances, node_instances, inst_mem,
                   symlinks, clock, next_inst, hist>>
    /\ UNCHANGED <<watchVars, startVars, cwd, db_now, proc, webhookVars, tailVars>>

\* ------------------------------------------------------ webhook triggers
\* Time passes.
Tick ==
    /\ clock < MaxBuilds
    /\ clock' = clock + 1
    /\ ev' = [kind |-> "tick"]
    /\ UNCHANGED <<cfg_files, nodes, db_instances, node_instances, inst_mem, node_values,
                   symlinks, fs, store, logs, next_inst, pc, frame, hist>>
    /\ UNCHANGED sideVars

\* trigger.node_id + "_" + str(int(trigger.timestamp.timestamp() * 1000))
TriggerId(node_id, timestamp) == <<node_id, timestamp>>

\* trigger_webhook: WebhookTrigger(timestamp = now()), store_webhook_trigger
\* (a plain INSERT: a second row with the same primary key raises), _log.
trigger_webhook(node_id, data) ==
    LET id  == TriggerId(node_id, clock)
        row == [id |-> id, node_id |-> node_id, data |-> data, headers |-> EmptyFn,
                timestamp |-> clock, processed |-> FALSE]
    IN
    /\ Len(webhook_triggers) < MaxTriggers
    /\ IF \E k \in 1..Len(webhook_triggers) : webhook_triggers[k].id = id
       THEN /\ ev' = [kind |-> "raise_trigger", err |-> "integrity", node_id |-> node_id]
            /\ UNCHANGED <<webhook_triggers, logs>>
       ELSE /\ webhook_triggers' = Append(webhook_triggers, row)
            /\ logs' = logs \cup {Log(node_id, "info", "Webhook triggered")}
            /\ ev' = [kind |-> "triggered", id |-> id]
    /\ UNCHANGED <<cfg_files, nodes, db_instances, node_instances, inst_mem, node_values,
                   symlinks, fs, store, clock, next_inst, pc, frame, hist>>
    /\ UNCHANGED <<watchVars, startVars, cwd, db_now, execVars, drain, tailVars>>

\* The WebhookTrigger object a row is read back as.
TriggerOfRow(row) ==
    [node_id |-> row.node_id, data |-> row.data, headers |-> row.headers,
     timestamp |-> row.timestamp]

\* get_pending_webhook_triggers: processed = FALSE, ORDER BY timestamp (rows
\* are inserted in timestamp order).
RECURSIVE get_pending_webhook_triggers(_)
get_pending_webhook_triggers(rows) ==
    IF rows = <<>> THEN <<>>
    ELSE (IF Head(rows).processed THEN <<>> ELSE <<TriggerOfRow(Head(rows))>>)
         \o get_pending_webhook_triggers(Tail(rows))

\* mark_webhook_processed: UPDATE ... SET processed = TRUE WHERE id = ?
mark_webhook_processed(rows, trigger_id) ==
    [k \in 1..Len(rows) |->
        IF rows[k].id = trigger_id THEN [rows[k] EXCEPT !.processed = TRUE] ELSE rows[k]]

\* _process_webhooks, top of the while loop: fetch the pending triggers.
_process_webhooks ==
    LET pending == get_pending_webhook_triggers(webhook_triggers) IN
    /\ drain.pc = "sleep"
    /\ drain' = [pc |-> IF pending = <<>> THEN "sleep" ELSE "loop", triggers |-> pending]
    /\ ev' = [kind |-> "poll", pending |-> Len(pending)]
    /\ UNCHANGED <<cfg_files, nodes, db_instances, node_instances, inst_mem, node_values,
                   symlinks, fs, store, logs, clock, next_inst, pc, frame, hist>>
    /\ UNCHANGED <<watchVars, startVars, cwd, db_now, execVars, webhook_triggers, tailVars>>

\* The context a trigger is rendered with.
WebhookContext(trigger) ==
    [k \in {"webhook_data", "webhook_headers", "webhook_timestamp"} |->
        CASE k = "webhook_data"    -> Some(trigger.data)
          [] k = "webhook_headers" -> Some(<<"{}">>)
          [] OTHER                 -> Some(<<"ts">>)]

\* The body of the loop over the node's instances for one instance: render,
\* write by output mode, log. acc.ok = FALSE once a write has raised.
ApplyWebhook(acc, node, trigger, instance) ==
    IF ~acc.ok THEN acc
    ELSE IF IsNone(node.config.template_content)
    THEN [acc EXCEPT !.applied = @ \cup {instance.id}]
    ELSE
      LET rendered == render(node.config.template_content.val, WebhookContext(trigger))
          mode     == node.config.output_mode
          w        == IF mode \in {"append", "prepend"}
                      THEN WriteByMode(mode, acc.fs, acc.store, instance.output_path, rendered)
                           @@ [hash |-> NoneV]
                      ELSE WriteProgramOutput("replace", acc.fs, acc.store,
                                              instance.output_path, rendered)
      IN
      IF ~w.ok THEN [acc EXCEPT !.ok = FALSE, !.store = w.store]
      ELSE [ok |-> TRUE, fs |-> w.fs, store |-> w.store,
            symlinks |-> IF IsNone(w.hash) THEN acc.symlinks
                         ELSE Put(acc.symlinks, instance.output_path,
                                  [content_hash |-> w.hash.val,
                                   node_instance_id |-> instance.id]),
            applied |-> acc.applied \cup {instance.id}]

\* "for instance in self.node_instances[trigger.node_id]": the state one
\* iteration leaves is the state the next one starts from.
RECURSIVE ApplyWebhookAll(_, _, _, _)
ApplyWebhookAll(acc, node, trigger, ids) ==
    IF ids = <<>> THEN acc
    ELSE CHOOSE out \in {ApplyWebhookAll(a, node, trigger, Tail(ids)) :
                           a \in {ApplyWebhook(acc, node, trigger, inst_mem[Head(ids)])}} : TRUE

\* One iteration of "for trigger in triggers": _process_webhook_trigger. An
\* exception leaves the for loop; _process_webhooks logs it, sleeps and
\* fetches again.
_process_webhook_trigger ==
    LET trigger == Head(drain.triggers)
        id      == TriggerId(trigger.node_id, trigger.timestamp)
        node    == get_node(nodes, trigger.node_id)
        listed  == IF trigger.node_id \in DOMAIN node_instances
                   THEN node_instances[trigger.node_id] ELSE <<>>
        start   == [ok |-> TRUE, fs |-> fs, store |-> store, symlinks |-> symlinks,
                    applied |-> {}]
        rest    == Tail(drain.triggers)
        next    == [pc |-> IF rest = <<>> THEN "sleep" ELSE "loop", triggers |-> rest]
    IN
    /\ drain.pc = "loop"
    /\ IF IsNone(node) \/ node.val.config.node_type # "webhook"
       THEN /\ drain' = next
            /\ ev' = [kind |-> "skipped", id |-> id]
            /\ UNCHANGED <<fs, store, symlinks, logs, webhook_triggers, hist>>
       ELSE \E r \in {ApplyWebhookAll(start, node.val, trigger, listed)} :
            LET counted == [k \in DOMAIN hist.applied \cup {<<id, i>> : i \in r.applied} |->
                              (IF k \in DOMAIN hist.applied THEN hist.applied[k] ELSE 0)
                              + (IF k[1] = id /\ k[2] \in r.applied THEN 1 ELSE 0)]
            IN
            /\ \A p \in DOMAIN r.fs :
                 LET seen == ReadPath(r.fs, r.store, p) IN
                 seen.seen = "text" => Len(seen.text) <= MaxContentLen
            /\ fs' = r.fs
            /\ store' = r.store
            /\ symlinks' = r.symlinks
            /\ hist' = [hist EXCEPT !.applied = counted]
            /\ IF r.ok
               THEN /\ webhook_triggers' = mark_webhook_processed(webhook_triggers, id)
                    /\ drain' = next
                    /\ logs' = logs \cup {Log(trigger.node_id, "info", "Webhook processed")}
                    /\ ev' = [kind |-> "processed", id |-> id]
               ELSE /\ drain' = IdleDrain
                    /\ logs' = logs \cup {Log("webhook_processor", "error",
                                                "Webhook processing error")}
                                    \cup (IF r.applied = {} THEN {}
                                          ELSE {Log(trigger.node_id, "info", "Webhook processed")})
                    /\ ev' = [kind |-> "raise_drain", id |-> id]
                    /\ UNCHANGED webhook_triggers
    /\ UNCHANGED <<cfg_files, nodes, db_instances, node_instances, inst_mem, node_values,
                   clock, next_inst, pc, frame>>
    /\ UNCHANGED <<watchVars, startVars, cwd, db_now, execVars, tailVars>>

\* ------------------------------------------------------------ TailWatcher
\* max_lines of _check_file_changes and the default of NodeConfig.tail_lines.
TailMaxLines == 1000
TailLinesDefault == 10

\* lines[:-1] and lines[-n:]
AllButLast(lines) == SubSeq(lines, 1, Len(lines) - 1)
LastN(lines, n) == IF Len(lines) > n THEN SubSeq(lines, Len(lines) - n + 1, Len(lines)) ELSE lines

\* content.split("\n"): the segments between the separators, at least one.
\* Computed by halves: the last segment of the left half and the first of the
\* right half are one segment of the whole.
RECURSIVE Split(_)
Split(content) ==
    IF content = <<>> THEN << <<>> >>
    ELSE IF Len(content) = 1
    THEN IF content[1] = "\n" THEN << <<>>, <<>> >> ELSE <<content>>
    ELSE LET h == Len(content) \div 2
             l == Split(SubSeq(content, 1, h))
             r == Split(SubSeq(content, h + 1, Len(content)))
         IN AllButLast(l) \o << l[Len(l)] \o r[1] >> \o Tail(r)

\* [line.rstrip(separator) for line in f.readlines()]
ReadLinesStripped(content) ==
    LET parts == Split(content) IN
    IF parts[Len(parts)] = <<>> THEN AllButLast(parts) ELSE parts

\* add_file_watch: a path not yet watched gets a TailState positioned at the
\* end of the file, its inode, and the last tail_lines lines as buffer; the
\* callback is added unless an equal one is already in the list.
add_file_watch(node_id, callback, tail_lines) ==
    LET fresh == IF tail_file.exists
                 THEN [NoTailState EXCEPT
                         !.watched = TRUE, !.node_id = Some(node_id),
                         !.last_position = Len(tail_file.content),
                         !.last_inode = Some(tail_file.inode),
                         !.buffer = LastN(ReadLinesStripped(tail_file.content), tail_lines)]
                 ELSE [NoTailState EXCEPT !.watched = TRUE, !.node_id = Some(node_id)]
        state == IF tail_state.watched THEN tail_state ELSE fresh
    IN
    /\ tail_state' = IF \E k \in 1..Len(state.callbacks) : state.callbacks[k] = callback
                     THEN state
                     ELSE [state EXCEPT !.callbacks = Append(@, callback)]
    /\ ev' = [kind |-> "watch", node_id |-> node_id]
    /\ hist' = IF tail_state.watched
               THEN [hist EXCEPT !.tail.armed = @ \cup {node_id}]
               ELSE [hist EXCEPT !.tail = [NoTailHist EXCEPT
                        !.armed = hist.tail.armed \cup {node_id},
                        !.n0 =
                        IF tail_file.exists THEN Len(Split(tail_file.content)) - 1 ELSE 0]]
    /\ UNCHANGED <<cfg_files, nodes, db_instances, node_instances, inst_mem, node_values,
                   symlinks, fs, store, logs, clock, next_inst, pc, frame>>
    /\ UNCHANGED <<watchVars, startVars, cwd, db_now, execVars, webhookVars, tail_file>>

\* remove_file_watch: the whole file watch is removed, whatever node asks.
remove_file_watch(node_id) ==
    /\ tail_state.watched
    /\ tail_state' = NoTailState
    /\ ev' = [kind |-> "unwatch", node_id |-> node_id]
    /\ hist' = [hist EXCEPT !.tail = [NoTailHist EXCEPT
                                         !.armed = hist.tail.armed \ {node_id}]]
    /\ UNCHANGED <<cfg_files, nodes, db_instances, node_instances, inst_mem, node_values,
                   symlinks, fs, store, logs, clock, next_inst, pc, frame>>
    /\ UNCHANGED <<watchVars, startVars, cwd, db_now, execVars, webhookVars, tail_file>>

\* What other processes do to the tailed path: append a byte, rotate it
\* (rename it away and create an empty file), truncate it, delete it, create it.
FileAppend(b) ==
    /\ tail_file.exists
    /\ tail_file.appended < MaxAppended
    /\ tail_file' = [tail_file EXCEPT !.content = Append(@, b), !.appended = @ + 1]
    /\ ev' = [kind |-> "file"]
    /\ UNCHANGED <<cfg_files, nodes, db_instances, node_instances, inst_mem, node_values,
                   symlinks, fs, store, logs, clock, next_inst, pc, frame, hist>>
    /\ UNCHANGED <<watchVars, startVars, cwd, db_now, execVars, webhookVars, tail_state>>

FileRotate ==
    /\ tail_file.exists
    /\ tail_file.inode < MaxInode
    /\ tail_file' = [tail_file EXCEPT !.inode = @ + 1, !.content = <<>>]
    /\ ev' = [kind |-> "file"]
    /\ UNCHANGED <<cfg_files, nodes, db_instances, node_instances, inst_mem, node_values,
                   symlinks, fs, store, logs, clock, next_inst, pc, frame, hist>>
    /\ UNCHANGED <<watchVars, startVars, cwd, db_now, execVars, webhookVars, tail_state>>

FileTruncate ==
    /\ tail_file.exists
    /\ tail_file.content # <<>>
    /\ tail_file' = [tail_file EXCEPT !.content = <<>>]
    /\ ev' = [kind |-> "file"]
    /\ UNCHANGED <<cfg_files, nodes, db_instances, node_instances, inst_mem, node_values,
                   symlinks, fs, store, logs, clock, next_inst, pc, frame, hist>>
    /\ UNCHANGED <<watchVars, startVars, cwd, db_now, execVars, webhookVars, tail_state>>

FileDelete ==
    /\ tail_file.exists
    /\ tail_file' = [tail_file EXCEPT !.exists = FALSE, !.content = <<>>]
    /\ ev' = [kind |-> "file"]
    /\ UNCHANGED <<cfg_files, nodes, db_instances, node_instances, inst_mem, node_values,
                   symlinks, fs, store, logs, clock, next_inst, pc, frame, hist>>
    /\ UNCHANGED <<watchVars, startVars, cwd, db_now, execVars, webhookVars, tail_state>>

\* The new file gets an unused inode number or the one just freed.
FileCreate(inode) ==
    /\ ~tail_file.exists
    /\ inode \in {tail_file.inode, tail_file.inode + 1} \cap 1..MaxInode
    /\ tail_file' = [tail_file EXCEPT !.exists = TRUE, !.inode = inode, !.content = <<>>]
    /\ ev' = [kind |-> "file"]
    /\ UNCHANGED <<cfg_files, nodes, db_instances, node_instances, inst_mem, node_values,
                   symlinks, fs, store, logs, clock, next_inst, pc, frame, hist>>
    /\ UNCHANGED <<watchVars, startVars, cwd, db_now, execVars, webhookVars, tail_state>>

\* Mutant: a rotation resets the position but keeps the buffered lines.
RotationReset_keeps_buffer(state, current_inode) ==
    [state EXCEPT !.last_position = 0, !.last_inode = Some(current_inode)]

\* The rotation branch: start from the beginning of the new file.
RotationReset(state, current_inode) ==
    [state EXCEPT !.last_position = 0, !.last_inode = Some(current_inode), !.buffer = <<>>]

\* Mutant: a truncation resets the position but keeps the buffered lines.
TruncationReset_keeps_buffer(state) == [state EXCEPT !.last_position = 0]

\* The truncation branch: start from the beginning.
TruncationReset(state) == [state EXCEPT !.last_position = 0, !.buffer = <<>>]

\* Mutant: an absent file resets the position but keeps the known inode.
AbsentReset_keeps_inode(state) == [state EXCEPT !.last_position = 0]
\* The path does not exist: position 0, inode unknown; the buffer stays.
AbsentReset(state) == [state EXCEPT !.last_position = 0, !.last_inode = NoneV]

\* The growth branch: read from last_position to the end of the file, join
\* the first segment to the last buffer entry if the buffer is not empty,
\* append every other segment but the last as a new line, cap the buffer,
\* keep a non-empty last segment.
ReadGrowth(state, file) ==
    LET new_content == SubSeq(file.content, state.last_position + 1, Len(file.content))
        lines0      == Split(new_content)
        joins       == state.buffer # <<>>
        joined      == IF joins
                       THEN [state.buffer EXCEPT ![Len(state.buffer)] = @ \o lines0[1]]
                       ELSE state.buffer
        lines       == IF joins THEN Tail(lines0) ELSE lines0
        new_lines   == IF lines = <<>> THEN <<>> ELSE AllButLast(lines)
        capped      == LastN(joined \o new_lines, TailMaxLines)
        buffer      == IF lines # <<>> /\ lines[Len(lines)] # <<>>
                       THEN Append(capped, lines[Len(lines)]) ELSE capped
    IN [state |-> [state EXCEPT !.last_position = Len(file.content),
                                !.last_inode = Some(file.inode),
                                !.buffer = buffer],
        read |-> new_content,
        new_lines |-> new_lines]

\* _check_file_changes for the watched path: one poll.
_check_file_changes ==
    LET rotated == /\ tail_file.exists
                   /\ ~IsNone(tail_state.last_inode)
                   /\ tail_state.last_inode.val # tail_file.inode
        s1      == IF rotated THEN RotationReset(tail_state, tail_file.inode) ELSE tail_state
        size    == Len(tail_file.content)
        g       == ReadGrowth(s1, tail_file)
        grew    == tail_file.exists /\ size > s1.last_position
        shrank  == tail_file.exists /\ size < s1.last_position
    IN
    /\ tail_state.watched
    /\ tail_state' =
          IF ~tail_file.exists
          THEN AbsentReset(tail_state)
          ELSE IF grew THEN g.state
          ELSE IF shrank THEN TruncationReset(s1)
          ELSE s1
    /\ hist' = [hist EXCEPT !.tail.trunc = shrank,
                            !.tail.delivered = IF grew /\ tail_state.callbacks # <<>>
                                               THEN @ \o g.new_lines ELSE @]
    /\ ev' = [kind |-> "poll", rotated |-> rotated, truncated |-> shrank,
              absent |-> ~tail_file.exists, after_truncation |-> hist.tail.trunc,
              read_from |-> s1.last_position,
              read |-> IF grew THEN g.read ELSE <<>>,
              new_lines |-> IF grew THEN g.new_lines ELSE <<>>,
              delivered_to |-> IF grew /\ g.new_lines # <<>>
                               THEN [k \in 1..Len(tail_state.callbacks) |-> tail_state.node_id.val]
                               ELSE <<>>,
              pre |-> tail_state, file |-> tail_file]
    /\ UNCHANGED <<cfg_files, nodes, db_instances, node_instances, inst_mem, node_values,
                   symlinks, fs, store, logs, clock, next_inst, pc, frame>>
    /\ UNCHANGED <<watchVars, startVars, cwd, db_now, execVars, webhookVars, tail_file>>

\* ===================================================================
\* Spec: one Template node (config file /cwd/t.yaml, edited between Replace
\* and Append mode), its instances and their builds
\* ===================================================================
TemplateFile == "/cwd/t.yaml"
TemplateSpellings == {"/cwd/t.yaml"}
TemplateModes == {"replace", "append"}
InputChoices == {EmptyFn, [n \in {"name"} |-> <<"Isaac">>]}
AllFiles == {ResolveIn(StartDir, p) : p \in ConfigPaths}

Init ==
    /\ DaemonInit([f \in AllFiles |-> CfgHello("replace")])
    /\ ExecInit
    /\ WebhookInit
    /\ TailInit(NoFile)

Next ==
    \/ \E m \in TemplateModes : EditConfig(TemplateFile, CfgHello(m))
    \/ \E p \in TemplateSpellings : register_node(p)
    \/ \E p \in TemplateSpellings : unregister_node(_generate_node_id(p))
    \/ \E p \in TemplateSpellings, o \in OutPaths, iv \in InputChoices :
          create_instance(_generate_node_id(p), o, iv)
    \/ \E p \in TemplateSpellings : rebuild_node_instances(_generate_node_id(p))
    \/ _build_template_instance
    \/ create_symlink_step1
    \/ create_symlink_step2
    \/ BuildFinish

vars == <<daemonVars, sideVars>>

Spec == Init /\ [][Next]_vars

\* ===================================================================
\* SpecRestart: the Template node registered under both spellings of its
\* config path, its instances, and the daemon stopped and started again
\* from either directory
\* ===================================================================
RestartSpellings == {"t.yaml", "/cwd/t.yaml"}
TemplateIds == {Md5Hex12(s) : s \in RestartSpellings}

InitRestart ==
    /\ DaemonInit([f \in AllFiles |-> CfgHello("replace")])
    /\ ExecInit
    /\ WebhookInit
    /\ TailInit(NoFile)

NextRestart ==
    \/ \E p \in RestartSpellings : register_node(p)
    \/ \E n \in TemplateIds : unregister_node(n)
    \/ \E n \in TemplateIds, o \in OutPaths, iv \in InputChoices : create_instance(n, o, iv)
    \/ _build_template_instance
    \/ create_symlink_step1
    \/ create_symlink_step2
    \/ BuildFinish
    \/ \E d \in Dirs : RestartDaemon(d)

SpecRestart == InitRestart /\ [][NextRestart]_vars

\* ===================================================================
\* SpecFileChange: the Template node's config file is edited between a
\* template that needs the input "name" and one that has a default for it;
\* the watcher's change handling runs; instances write to a path or to a
\* path that is a directory
\* ===================================================================
FileChangeConfigs == {CfgRequired("template"), CfgHello("replace")}
FileChangeOutPaths == {"out1", "outdir"}

InitFileChange ==
    /\ DaemonInit([f \in AllFiles |-> CfgHello("replace")])
    /\ ExecInit
    /\ WebhookInit
    /\ TailInit(NoFile)

NextFileChange ==
    \/ \E c \in FileChangeConfigs : EditConfig(TemplateFile, c)
    \/ DbTick
    \/ \E p \in RestartSpellings : register_node(p)
    \/ \E o \in FileChangeOutPaths, iv \in InputChoices :
          create_instance(_generate_node_id(TemplateFile), o, iv)
    \/ /\ handle_file_change(_generate_node_id(TemplateFile), TemplateFile)
       /\ UNCHANGED loop_queue
    \/ _build_template_instance
    \/ create_symlink_step1
    \/ create_symlink_step2
    \/ BuildFinish

SpecFileChange == InitFileChange /\ [][NextFileChange]_vars

\* ===================================================================
\* SpecFailedBuild: a Template and a Program node that need the input
\* "name"; instances that give it or omit it, at a path or at a path that is
\* a directory; the program exits with a code or outlives the timeout
\* ===================================================================
FailedBuildFiles == {"/cwd/t.yaml", "/etc/p.yaml"}

InitFailedBuild ==
    /\ DaemonInit([f \in AllFiles |->
                     IF f = "/etc/p.yaml" THEN CfgProgram ELSE CfgRequired("template")])
    /\ ExecInit
    /\ WebhookInit
    /\ TailInit(NoFile)

NextFailedBuild ==
    \/ \E p \in FailedBuildFiles : register_node(p)
    \/ \E p \in FailedBuildFiles, o \in FileChangeOutPaths, iv \in InputChoices :
          create_instance(_generate_node_id(p), o, iv)
    \/ rebuild_node_instances(_generate_node_id("/etc/p.yaml"))
    \/ _build_template_instance
    \/ create_symlink_step1
    \/ create_symlink_step2
    \/ _build_program_instance
    \/ \E code \in {0, 1} : ProcessExits(code)
    \/ wait_for_timeout
    \/ process_wait
    \/ communicate_returns
    \/ _build_program_outputs
    \/ BuildFinish

SpecFailedBuild == InitFailedBuild /\ [][NextFailedBuild]_vars

\* ===================================================================
\* SpecDeps: the Template node A (config file /cwd/t.yaml, edited between
\* its Replace text and another text in Append mode) and a Template node B (/etc/l.yaml) whose input
\* declares A's output as its source, with or without a default; instances of
\* A at out1 and of B at out2, and their builds
\* ===================================================================
SourcedFile == "/etc/l.yaml"
SourcedDefaults == {NoneV, Some(<<"dflt">>)}
DepsConfigs == {CfgHello("replace"), CfgBye}

InitDeps ==
    /\ DaemonInit([f \in AllFiles |->
                     IF f = SourcedFile THEN CfgSourced(NoneV) ELSE CfgHello("replace")])
    /\ ExecInit
    /\ WebhookInit
    /\ TailInit(NoFile)

NextDeps ==
    \/ \E c \in DepsConfigs : EditConfig(TemplateFile, c)
    \/ \E d \in SourcedDefaults : EditConfig(SourcedFile, CfgSourced(d))
    \/ \E f \in {TemplateFile, SourcedFile} : register_node(f)
    \/ create_instance(_generate_node_id(TemplateFile), "out1", EmptyFn)
    \/ \E iv \in InputChoices : create_instance(_generate_node_id(SourcedFile), "out2", iv)
    \/ \E f \in {TemplateFile, SourcedFile} : rebuild_node_instances(_generate_node_id(f))
    \/ _build_template_instance
    \/ create_symlink_step1
    \/ create_symlink_step2
    \/ BuildFinish

SpecDeps == InitDeps /\ [][NextDeps]_vars

\* ===================================================================
\* SpecWatch: a Template node whose input "name" is a file input; instances
\* that give the input file /cwd/d.txt under its relative or its absolute
\* spelling; the node unregistered and registered again
\* ===================================================================
FileInputChoices == {[n \in {"name"} |-> <<p>>] : p \in {"d.txt", "/cwd/d.txt"}}

InitWatch ==
    /\ DaemonInit([f \in AllFiles |-> CfgFileInput])
    /\ ExecInit
    /\ WebhookInit
    /\ TailInit(NoFile)

NextWatch ==
    \/ register_node(TemplateFile)
    \/ unregister_node(_generate_node_id(TemplateFile))
    \/ \E o \in OutPaths, iv \in FileInputChoices :
          create_instance(_generate_node_id(TemplateFile), o, iv)
    \/ _build_template_instance
    \/ create_symlink_step1
    \/ create_symlink_step2
    \/ BuildFinish

SpecWatch == InitWatch /\ [][NextWatch]_vars

\* ===================================================================
\* SpecBuild: a Template, a Webhook and a Program node that each declare an
\* input with no default and no source; the program's process writes its
\* output, exits, or outlives the timeout
\* ===================================================================
WebhookFile == "/etc/w.yaml"
ProgramFile == "/etc/p.yaml"
BuildFiles == {TemplateFile, WebhookFile, ProgramFile}
BuildOutPaths == {"out1"}
ExitCodes == {0, 1}
ProgramTexts == {<<"r1">>}

BuildConfigs ==
    [f \in AllFiles |->
        CASE f = WebhookFile -> CfgRequired("webhook")
          [] f = ProgramFile -> CfgProgram
          [] OTHER           -> CfgRequired("template")]

InitBuild ==
    /\ DaemonInit(BuildConfigs)
    /\ ExecInit
    /\ WebhookInit
    /\ TailInit(NoFile)

NextBuild ==
    \/ \E p \in BuildFiles : register_node(p)
    \/ \E p \in BuildFiles, o \in BuildOutPaths, iv \in InputChoices :
          create_instance(_generate_node_id(p), o, iv)
    \/ rebuild_node_instances(_generate_node_id(ProgramFile))
    \/ _build_template_instance
    \/ create_symlink_step1
    \/ create_symlink_step2
    \/ _build_webhook_instance
    \/ _build_program_instance
    \/ \E c \in ProgramTexts : ProcessWrites("result.json", c)
    \/ \E code \in ExitCodes : ProcessExits(code)
    \/ wait_for_timeout
    \/ process_wait
    \/ communicate_returns
    \/ _build_program_outputs
    \/ BuildFinish

SpecBuild == InitBuild /\ [][NextBuild]_vars

\* ===================================================================
\* SpecScript: a Program node whose config file is its own script; instances
\* whose file input is that script or a data file; the watcher delivers the
\* changes of the watched files
\* ===================================================================
ScriptInputChoices == {[n \in {"name"} |-> <<p>>] : p \in {"/etc/p.yaml", "/cwd/d.txt"}}

InitScript ==
    /\ DaemonInit([f \in AllFiles |-> IF f = ProgramFile THEN CfgScript ELSE CfgHello("replace")])
    /\ ExecInit
    /\ WebhookInit
    /\ TailInit(NoFile)

\* FileWatcher.on_modified for a watched file, and the event loop running
\* the coroutine it submitted for one of the interested nodes.
WatcherDelivers ==
    \E f \in DOMAIN watched_files :
       \E n \in SeqToSet(watched_files[f]) :
          handle_file_change(n, f) /\ UNCHANGED loop_queue

NextScript ==
    \/ register_node(ProgramFile)
    \/ \E iv \in ScriptInputChoices :
          create_instance(_generate_node_id(ProgramFile), "out1", iv)
    \/ WatcherDelivers
    \/ _build_program_instance
    \/ \E c \in ProgramTexts : ProcessWrites("result.json", c)
    \/ \E code \in ExitCodes : ProcessExits(code)
    \/ wait_for_timeout
    \/ process_wait
    \/ communicate_returns
    \/ _build_program_outputs
    \/ BuildFinish

SpecScript == InitScript /\ [][NextScript]_vars

\* ===================================================================
\* SpecWebhook: a Webhook node in Append mode, its instances (one output
\* path is a directory), deliveries and the drain loop
\* ===================================================================
WebhookOutPaths == {"out1", "outdir"}
Payloads == {<<"a">>}
TriggerTargets == {_generate_node_id(WebhookFile), _generate_node_id(TemplateFile)}

InitWebhook ==
    /\ DaemonInit([f \in AllFiles |->
                     IF f = WebhookFile THEN CfgWebhook("append") ELSE CfgHello("replace")])
    /\ ExecInit
    /\ WebhookInit
    /\ TailInit(NoFile)

NextWebhook ==
    \/ register_node(WebhookFile)
    \/ \E o \in WebhookOutPaths : create_instance(_generate_node_id(WebhookFile), o, EmptyFn)
    \/ _build_webhook_instance
    \/ BuildFinish
    \/ Tick
    \/ \E n \in TriggerTargets, d \in Payloads : trigger_webhook(n, d)
    \/ _process_webhooks
    \/ _process_webhook_trigger

SpecWebhook == InitWebhook /\ [][NextWebhook]_vars

\* ===================================================================
\* SpecDrain: two Webhook nodes in Replace mode, the instance of the first
\* at a path that is a directory and the instance of the second at a free
\* path, deliveries to both, and the drain loop scheduled again and again
\* ===================================================================
SecondWebhookFile == "/etc/l.yaml"
DrainFiles == {WebhookFile, SecondWebhookFile}
\* The triggers the second node can be sent.
DrainTriggerIds == {TriggerId(_generate_node_id(SecondWebhookFile), t) : t \in 0..MaxBuilds}

InitDrain ==
    /\ DaemonInit([f \in AllFiles |-> CfgWebhook("replace")])
    /\ ExecInit
    /\ WebhookInit
    /\ TailInit(NoFile)

NextDrain ==
    \/ \E f \in DrainFiles : register_node(f)
    \/ create_instance(_generate_node_id(WebhookFile), "outdir", EmptyFn)
    \/ create_instance(_generate_node_id(SecondWebhookFile), "out1", EmptyFn)
    \/ _build_webhook_instance
    \/ BuildFinish
    \/ \E f \in DrainFiles, d \in Payloads : trigger_webhook(_generate_node_id(f), d)
    \/ _process_webhooks
    \/ _process_webhook_trigger

\* "while self.running:" with a sleep between passes: the task takes its next
\* step whenever the event loop runs it.
\* ===================================================================
\* SpecNotify: two nodes registered and unregistered on the control loop
\* while the observer thread delivers modify events for their config files
\* and the event loop runs what the thread submitted
\* ===================================================================
NotifyFiles == {TemplateFile, WebhookFile}

InitNotify ==
    /\ DaemonInit([f \in AllFiles |-> CfgHello("replace")])
    /\ ExecInit
    /\ WebhookInit
    /\ TailInit(NoFile)

NextNotify ==
    \/ \E f \in NotifyFiles : register_node(f)
    \/ \E f \in NotifyFiles : unregister_node(_generate_node_id(f))
    \/ \E f \in NotifyFiles : on_modified(f)
    \/ on_modified_lookup
    \/ on_modified_next
    \/ RunSubmitted

SpecNotify == InitNotify /\ [][NextNotify]_vars

\* ===================================================================
\* SpecStart: two "daemon start" commands on one configuration directory,
\* on the same port or on different ports, and the daemons stopped or killed
\* ===================================================================
NextStart ==
    \/ \E p \in Pids, port \in Ports : cli_start(p, port)
    \/ \E p \in Pids : start_probe(p)
    \/ \E p \in Pids : start_unlink(p)
    \/ \E p \in Pids : daemon_start(p)
    \/ \E p \in Pids : daemon_write_pid(p)
    \/ \E p \in Pids : daemon_stop(p)
    \/ \E p \in Pids : daemon_killed(p)

SpecStart == InitNotify /\ [][NextStart]_vars

SpecDrain ==
    /\ InitDrain
    /\ [][NextDrain]_vars
    /\ WF_vars(_process_webhooks)
    /\ WF_vars(_process_webhook_trigger)

\* ===================================================================
\* SpecPending: a Webhook node in Replace mode with an instance at a free
\* path and a Template node, each registered or not; deliveries addressed to
\* both ids, and the drain loop scheduled again and again
\* ===================================================================
\* The triggers that can be recorded: the ids the two nodes have in a daemon
\* started in /cwd, and the times of the clock.
PendingTriggerIds ==
    {TriggerId(n, t) : n \in {Md5Hex12("t.yaml"), Md5Hex12(WebhookFile)}, t \in 0..MaxBuilds}

InitPending ==
    /\ DaemonInit([f \in AllFiles |->
                     IF f = WebhookFile THEN CfgWebhook("replace") ELSE CfgHello("replace")])
    /\ ExecInit
    /\ WebhookInit
    /\ TailInit(NoFile)

NextPending ==
    \/ \E f \in {WebhookFile, TemplateFile} : register_node(f)
    \/ create_instance(_generate_node_id(WebhookFile), "out1", EmptyFn)
    \/ _build_webhook_instance
    \/ BuildFinish
    \/ \E n \in TriggerTargets, d \in Payloads : trigger_webhook(n, d)
    \/ _process_webhooks
    \/ _process_webhook_trigger

\* The drain task takes its next step whenever the event loop runs it.
SpecPending ==
    /\ InitPending
    /\ [][NextPending]_vars
    /\ WF_vars(_process_webhooks)
    /\ WF_vars(_process_webhook_trigger)

\* ===================================================================
\* SpecTail: one tailed path, appended to, rotated, truncated, deleted and
\* re-created by other processes, and the watcher's polls of it
\* ===================================================================
TailConfigFile == "/etc/l.yaml"
TailNodeIds == {_generate_node_id(TailConfigFile)}
TailBytes == {"a", "\n"}

\* The path before the daemon starts: absent, empty, or a file of ten bytes
\* whose last line is not terminated.
InitialFiles ==
    {NoFile,
     [exists |-> TRUE, inode |-> 1, content |-> <<>>, appended |-> 0],
     [exists |-> TRUE, inode |-> 1, appended |-> 0,
      content |-> <<"a", "a", "a", "a", "\n", "a", "a", "a", "a", "a">>]}

InitTail ==
    /\ DaemonInit([f \in AllFiles |-> CfgHello("replace")])
    /\ ExecInit
    /\ WebhookInit
    /\ \E file \in InitialFiles : TailInit(file)

NextTail ==
    \/ \E n \in TailNodeIds : add_file_watch(n, "handle_tail_change", TailLinesDefault)
    \/ \E n \in TailNodeIds : remove_file_watch(n)
    \/ \E b \in TailBytes : FileAppend(b)
    \/ FileRotate
    \/ FileTruncate
    \/ FileDelete
    \/ \E i \in 1..MaxInode : FileCreate(i)
    \/ _check_file_changes

SpecTail == InitTail /\ [][NextTail]_vars

\* ===================================================================
\* SpecTailAppend: the tailed path is only created and appended to, never
\* rotated, truncated or deleted, and the watch once armed stays
\* ===================================================================
NextTailAppend ==
    \/ \E n \in TailNodeIds : add_file_watch(n, "handle_tail_change", TailLinesDefault)
    \/ \E b \in TailBytes : FileAppend(b)
    \/ \E i \in 1..MaxInode : FileCreate(i)
    \/ _check_file_changes

SpecTailAppend == InitTail /\ [][NextTailAppend]_vars

\* ===================================================================
\* Properties checked under Spec
\* ===================================================================
IsReplaceBuild == ev.kind = "built" /\ ev.config.output_mode = "replace"

\* C1: after every successful Replace-mode build the instance's output path
\* is a symlink that resolves to an existing blob of the content store whose
\* text is exactly the text that build produced.
C1_ReplaceBuildLinksBuiltContent ==
    IsReplaceBuild =>
        /\ fs[ev.output_path].kind = "link"
        /\ fs[ev.output_path].target \in DOMAIN store
        /\ ~IsNone(ev.content)
        /\ store[fs[ev.output_path].target] = ev.content.val

\* C2: while create_symlink replaces an existing output, a reader of the
\* output path sees the complete old text or the complete new text at every
\* intermediate step.
C2_ReaderSeesOldOrNew ==
    (pc \in {"unlink", "link", "finish"} /\ frame.cur.symlink
        /\ frame.op = "rebuild" /\ CurId \in DOMAIN hist.last
        /\ frame.cur.pre_read.seen = "text") =>
        \/ ReadPath(fs, store, CurOut) = frame.cur.pre_read
        \/ ReadPath(fs, store, CurOut) = [seen |-> "text", text |-> frame.cur.content.val]

\* The ids of the instances the daemon holds for a node: rows of the store
\* that are also in the in-memory list.
PresentInstances(node_id) ==
    {i \in DOMAIN db_instances : db_instances[i].node_id = node_id}
      \cap (IF node_id \in DOMAIN node_instances
            THEN SeqToSet(node_instances[node_id]) ELSE {})

IsReRegister == ev.kind = "register" /\ ev.again

\* C4: a second register(p) returns the id the previous register(p)
\* returned, leaves exactly one node row with that id, and every instance
\* created between the two calls is still present, whatever ran in between.
C4_ReRegisterKeepsAllInstances ==
    IsReRegister =>
        /\ ev.id = ev.prev.val.id
        /\ Cardinality({r \in nodes : r.id = ev.id}) = 1
        /\ ev.prev.val.between \subseteq PresentInstances(ev.id)

\* C5: store(c) of a text stored before returns the hash the first call
\* returned and does not write the blob again, and get(hash) returns c after
\* every call.
C5_StoreTwiceSameHashOneWrite ==
    ev.kind = "store" =>
        /\ ev.got = Some(ev.content)
        /\ (ev.again => ev.hash = ev.first.val /\ ~ev.wrote)

\* A Replace-mode rebuild of a Template instance whose node config and
\* resolved inputs are those of the instance's previous build.
IsUnchangedRebuild ==
    /\ IsReplaceBuild
    /\ ev.config.node_type = "template"
    /\ ev.rebuilt
    /\ ev.last.val.config = ev.config
    /\ ev.last.val.context = ev.context

ValueHashes(nv, node_id) ==
    [k \in {k \in DOMAIN nv : k[1] = node_id} |-> nv[k].value_hash]

OnlyBuildMetadataChanged(before, after) ==
    /\ after = [before EXCEPT !.last_built = after.last_built,
                              !.build_count = after.build_count]
    /\ after.build_count = before.build_count + 1
    /\ after.last_built > before.last_built

OmitsRequiredInput(config, input_values) ==
    \E k \in 1..Len(config.inputs) :
        /\ IsNone(config.inputs[k].default)
        /\ IsNone(config.inputs[k].source)
        /\ config.inputs[k].name \notin DOMAIN input_values

\* create_instance has returned or raised after building such an instance.
IsCreateOmittingRequired ==
    /\ ev.kind \in {"built", "raise"}
    /\ ev.op = "create"
    /\ OmitsRequiredInput(ev.config, ev.input_values)

RaisedRequiredInput ==
    /\ ev.kind = "raise"
    /\ ev.err = "required_input"
    /\ fs[ev.output_path] = ev.pre_out
    /\ node_values = ev.pre_nv

\* C7 as stated: create_instance on a node of any type that declares an input
\* with no default and no source, the instance omitting it, raises the
\* required-input error, writes no output and caches no NodeValue.
C7_CreateOmittingRequiredRaises ==
    IsCreateOmittingRequired => RaisedRequiredInput

\* C7 amended: the same for a node of type Template or Program, the types
\* whose builders resolve the inputs.
C7_TemplateOrProgramOmittingRequiredRaises ==
    (IsCreateOmittingRequired /\ ev.config.node_type \in {"template", "program"})
        => RaisedRequiredInput

C7_Witness ==
    /\ IsCreateOmittingRequired
    /\ ev.config.node_type = "program"
    /\ RaisedRequiredInput
    /\ node_values # EmptyFn

\* C8: when the program's process outlives the timeout, the build fails with
\* the timeout error only after the process has been sent SIGKILL and has
\* been reaped, and that build stores no NodeValue; while the handler waits
\* for the process the signal has been sent.
C8_TimeoutKillsReapsThenFails ==
    /\ (pc = "wait" => proc.killed)
    /\ (ev.kind = "raise" /\ ev.err = "timeout") =>
          /\ proc.killed
          /\ proc.state = "reaped"
          /\ node_values = ev.pre_nv
          /\ fs[ev.output_path] = ev.pre_out

C8_Witness ==
    /\ ev.kind = "raise"
    /\ ev.err = "timeout"
    /\ ev.config.node_type = "program"
    /\ proc.returncode = Some(0 - 9)
    /\ ~tmpdir.exists

\* C9: when the program exits with code 0 having written its declared output
\* into the temporary directory, the build writes that content to the
\* instance's output and caches it as the NodeValue of that output.
C9_ProgramOutputConsumed ==
    (ev.kind = "built" /\ ev.config.node_type = "program") =>
        \A k \in 1..Len(ev.config.outputs) :
            LET name == ev.config.outputs[k] IN
            name \in DOMAIN ev.produced =>
                /\ get_node_value(node_values, ev.node_id, name)
                     = Some([value_hash |-> Md5(ev.produced[name]),
                             value_data |-> ev.produced[name]])
                /\ ReadPath(fs, store, ev.output_path)
                     = [seen |-> "text", text |-> ev.produced[name]]

\* ===================================================================
\* Properties checked under SpecWebhook
\* ===================================================================
\* C3: over any run of the drain loop the effect of a recorded trigger is
\* applied to an instance of its node at most once: no later poll applies it
\* to that instance a second time.
C3_TriggerAppliedOnce ==
    \A k \in DOMAIN hist.applied : hist.applied[k] <= 1

\* ===================================================================
\* Properties checked under SpecTail
\* ===================================================================
\* A poll that found the file with an inode different from the known one.
IsRotationPoll == ev.kind = "poll" /\ ev.rotated

\* The buffer a file read from byte 0 into an empty buffer gives: its
\* terminated lines and, if it does not end with a separator, its last segment.
LinesFromStart(content) ==
    LET parts == Split(content) IN
    IF parts[Len(parts)] = <<>> THEN AllButLast(parts) ELSE parts

\* C10: a poll that finds an inode different from the known one reads the new
\* file from byte 0 and reads exactly its bytes; the lines delivered are the
\* new file's terminated lines, the first one included, and the buffer holds
\* lines of the new file only, none joined to a line of the old file.
C10_RotationReadsNewFileFromStart ==
    IsRotationPoll =>
        /\ ev.read_from = 0
        /\ ev.read = ev.file.content
        /\ ev.new_lines = AllButLast(Split(ev.file.content))
        /\ tail_state.buffer = LinesFromStart(ev.file.content)
        /\ tail_state.last_position = Len(ev.file.content)
        /\ tail_state.last_inode = Some(ev.file.inode)

\* The stat sequence (inode 1, size 10) then (inode 2, size 3), the old
\* file's last line unterminated: the 3 new bytes are read, the new file's
\* first line is delivered.
C10_Witness ==
    /\ IsRotationPoll
    /\ ev.pre.last_inode = Some(1)
    /\ ev.pre.last_position = 10
    /\ ev.pre.buffer = <<<<"a", "a", "a", "a">>, <<"a", "a", "a", "a", "a">>>>
    /\ ev.file.inode = 2
    /\ Len(ev.file.content) = 3
    /\ Len(ev.read) = 3
    /\ ev.new_lines = <<<<"a">>>>
    /\ ev.delivered_to # <<>>

\* A poll that found the file, of the inode it knew, shorter than the offset.
IsTruncationPoll == ev.kind = "poll" /\ ev.truncated /\ ~ev.rotated

\* C11: after a poll that finds the file's size smaller than the recorded
\* offset (same inode) the offset is 0 and the buffer is empty, and the next
\* poll of that watch reads the file from byte 0: all of its bytes.
C11_TruncationResetsThenReadsFromStart ==
    /\ IsTruncationPoll =>
          /\ tail_state.last_position = 0
          /\ tail_state.buffer = <<>>
    /\ (ev.kind = "poll" /\ ev.after_truncation) =>
          /\ ev.pre.last_position = 0
          /\ ev.pre.buffer = <<>>
          /\ ev.read_from = 0
          /\ (~ev.absent => ev.read = ev.file.content)
          /\ (~ev.absent => tail_state.buffer = LinesFromStart(ev.file.content))

\* The poll after a truncation poll of a file that had buffered lines: it
\* reads the bytes written since from byte 0.
C11_Witness ==
    /\ ev.kind = "poll" /\ ev.after_truncation
    /\ ~ev.rotated
    /\ ev.read # <<>>
    /\ ev.read = ev.file.content
    /\ ev.new_lines # <<>>

\* The lines of the file terminated since the watch was armed.
LinesTerminatedSinceArmed ==
    LET terminated == AllButLast(Split(tail_file.content)) IN
    SubSeq(terminated, hist.tail.n0 + 1, Len(terminated))

\* C12: after every poll of a file that was only appended to since the
\* watch was armed, the lines handed to the callbacks so far are the lines
\* terminated in the file since the arming: each one once, in file order,
\* whole and unmerged.
C12_TerminatedLinesDeliveredOnce ==
    (ev.kind = "poll" /\ tail_file.exists /\ tail_state.callbacks # <<>>) =>
        hist.tail.delivered = LinesTerminatedSinceArmed

\* ===================================================================
\* Properties of unregister_node, checked under Spec
\* ===================================================================
\* The tables dependencies and tail_states are never written by the daemon
\* and stay empty; the other tables and the in-memory index are state.
RecordsOf(node_id, instances) ==
    [nodes       |-> {r \in nodes : r.id = node_id},
     instances   |-> {i \in DOMAIN db_instances : db_instances[i].node_id = node_id},
     symlinks    |-> {t \in DOMAIN symlinks : symlinks[t].node_instance_id \in instances},
     node_values |-> {k \in DOMAIN node_values : k[1] = node_id},
     logs        |-> {l \in logs : l.node_id = node_id},
     triggers    |-> {k \in 1..Len(webhook_triggers) : webhook_triggers[k].node_id = node_id},
     index       |-> {node_id} \cap DOMAIN node_instances]

NoRecords == [nodes |-> {}, instances |-> {}, symlinks |-> {}, node_values |-> {},
              logs |-> {}, triggers |-> {}, index |-> {}]

\* C13: when unregister_node(n) has completed, no node, instance, symlink,
\* cached value, execution log or webhook trigger row references n, and the
\* in-memory index has no entry for n.
C13_UnregisterLeavesNoRecord ==
    ev.kind = "unregister" => RecordsOf(ev.node_id, ev.instances) = NoRecords

\* ===================================================================
\* Properties of change handling, checked under SpecFileChange
\* ===================================================================
\* handle_file_change has finished for a change of the node's own config file.
IsConfigChangeHandled == ev.kind = "file_change" /\ ev.is_config_file /\ ev.done

\* C14: when handle_file_change has finished for a change of the node's
\* config file, the node row has the id and the created_at it had, carries
\* the config now in the file, and every instance the node had is still
\* there, in the store and in the index, rebuilt with that config.
C14_ConfigChangeReloadsInPlace ==
    IsConfigChangeHandled =>
        /\ Cardinality({r \in nodes : r.id = ev.node_id}) = 1
        /\ \A r \in nodes : r.id = ev.node_id =>
              /\ r.created_at = ev.pre_node.val.created_at
              /\ r.config = cfg_files[ev.file_path]
        /\ \A i \in DOMAIN ev.pre_instances :
              /\ i \in PresentInstances(ev.node_id)
              /\ inst_mem[i].build_count > ev.pre_instances[i].build_count
              /\ i \in DOMAIN hist.last
              /\ hist.last[i].config = cfg_files[ev.file_path]

\* C15: in a rebuild started by a file change, the build of an instance
\* that fails is logged at Error and does not end the rebuild: no instance
\* of the node is left unbuilt by it.
C15_FailedInstanceDoesNotStopRebuild ==
    (ev.kind = "raise" /\ ev.op = "file_change") =>
        /\ Log(ev.node_id, "error", "Build failed") \in logs
        /\ ev.rest = <<>>

C16_WitnessDirectory ==
    /\ ev.kind = "raise"
    /\ ev.err = "io"
    /\ ev.pre_out = FsDir

\* ===================================================================
\* Properties of the drain loop, checked under SpecDrain
\* ===================================================================
TriggerRows(id) == {k \in 1..Len(webhook_triggers) : webhook_triggers[k].id = id}

PendingTrigger(id) == \E k \in TriggerRows(id) : ~webhook_triggers[k].processed

ProcessedTrigger(id) == \E k \in TriggerRows(id) : webhook_triggers[k].processed

\* The trigger's node is a registered Webhook node.
ForWebhookNode(id) ==
    LET node == get_node(nodes, id[1]) IN
    ~IsNone(node) /\ node.val.config.node_type = "webhook"

\* Processing the trigger raises: an instance of its node has an output path
\* that is a directory.
TriggerFails(id) ==
    /\ id[1] \in DOMAIN node_instances
    /\ \E k \in 1..Len(node_instances[id[1]]) :
          fs[inst_mem[node_instances[id[1]][k]].output_path].kind = "dir"

\* C17: a pending trigger for a Webhook node whose own processing does not
\* fail is eventually marked processed, whatever other triggers are pending
\* and however their processing ends.
C17_OtherTriggersStillProcessed ==
    \A id \in DrainTriggerIds :
        (PendingTrigger(id) /\ ForWebhookNode(id) /\ ~TriggerFails(id))
            ~> (ProcessedTrigger(id) \/ TriggerFails(id))

\* ===================================================================
\* Properties of the content store, checked under Spec
\* ===================================================================
\* C18: every blob of the content store holds the content whose SHA-256 is
\* its file name.
C18_BlobsHashToTheirNames ==
    \A h \in DOMAIN store : Sha256(store[h]) = h

\* ===================================================================
\* Properties of the observer thread, checked under SpecNotify
\* ===================================================================
\* C19: the observer thread never reads the watched-path registry: whatever
\* it has done, it has evaluated no expression on FileWatcher.watched_files
\* and so has never failed on one.
C19_NotifierNeverReadsRegistry ==
    /\ ~notifier.read
    /\ notifier.pc # "raised"

\* ===================================================================
\* Properties of the start command, checked under SpecStart
\* ===================================================================
\* The processes that are daemons on the configuration directory: start has
\* set self.running.
RunningDaemons == {p \in Pids : starters[p].pc \in {"serving", "running"}}

\* C20: at most one daemon runs on the configuration directory, whatever the
\* interleaving of the start attempts.
C20_AtMostOneDaemon ==
    Cardinality(RunningDaemons) <= 1

\* ===================================================================
\* Properties of create_instance on an unregistered node (Spec)
\* ===================================================================
\* create_instance has returned for a node id that has no row in nodes.
IsCreateOnUnregistered ==
    /\ ev.kind \in {"created", "create_not_found"}
    /\ ev.node_id \notin {r.id : r \in nodes}

\* C21: create_instance called with a node id that is not registered fails
\* with a not-found error, persists no instance record and adds nothing to
\* the in-memory index (no watch is armed by it either).
C21_CreateOnUnregisteredNodeFails ==
    IsCreateOnUnregistered =>
        /\ ev.kind = "create_not_found"
        /\ ev.inst \notin DOMAIN db_instances
        /\ ev.inst \notin DOMAIN inst_mem
        /\ ev.node_id \notin DOMAIN node_instances

\* ===================================================================
\* Properties of input resolution and of dependent nodes (SpecDeps)
\* ===================================================================
\* The value the resolution order gives an input: the explicit value, else
\* the cached NodeValue of the declared source when that row exists, else
\* the declared default, else nothing.
ExpectedInput(spec, input_values, nv) ==
    IF spec.name \in DOMAIN input_values THEN Some(input_values[spec.name])
    ELSE IF ~IsNone(spec.source)
            /\ ~IsNone(get_node_value(nv, spec.source.val.node_id, spec.source.val.output_name))
    THEN Some(get_node_value(nv, spec.source.val.node_id,
                             spec.source.val.output_name).val.value_data)
    ELSE spec.default

\* A build of a Template instance has completed.
IsTemplateBuilt == ev.kind = "built" /\ ev.config.node_type = "template"

\* C22: for every declared input, the value a build uses is the explicit
\* value, else the source's cached NodeValue when it exists, else the default;
\* a build never completes with an input that has none of these (an
\* unresolved source without a default included).
C22_InputsResolvedInOrder ==
    IsTemplateBuilt =>
        \A k \in 1..Len(ev.config.inputs) :
            LET spec == ev.config.inputs[k]
                want == ExpectedInput(spec, ev.input_values, ev.pre_nv)
            IN /\ ~IsNone(want)
               /\ spec.name \in DOMAIN ev.context
               /\ ev.context[spec.name] = want

\* _extract_node_dependencies: the config has an input whose source names an
\* output of node_id (no template text of the model holds an "@" reference).
References(config, node_id) ==
    \E k \in 1..Len(config.inputs) :
        /\ ~IsNone(config.inputs[k].source)
        /\ config.inputs[k].source.val.node_id = node_id

\* The instances of the registered nodes that reference node_id.
DependentInstances(node_id) ==
    {i \in DOMAIN inst_mem :
        \E r \in nodes : /\ r.id = inst_mem[i].node_id
                         /\ r.id # node_id
                         /\ References(r.config, node_id)}

\* The build that is running stores content as a NodeValue that differs from
\* the cached one.
ChangesNodeValue(content) ==
    \E k \in 1..Len(CurCfg.outputs) :
        LET got == get_node_value(node_values, CurNode.id, CurCfg.outputs[k]) IN
        IsNone(got) \/ got.val.value_data # content

\* A step of a Template build that goes on to store a changed NodeValue: the
\* write of its output, or its closing metadata update.
IsStepOfChangingBuild ==
    \/ /\ pc = "build" /\ pc' \in {"unlink", "finish"}
       /\ ChangesNodeValue(frame'.cur.content.val)
    \/ /\ pc \in {"unlink", "link", "finish"}
       /\ ChangesNodeValue(frame.cur.content.val)

\* C23: a successful build of node A that changes A's cached NodeValue leaves
\* every instance of a node B that references A as it was: B's instance
\* records (build_count, last_built), B's NodeValues and what is read at B's
\* output paths do not change in any step of A's build.
C23_BuildDoesNotTouchDependents ==
    [][IsStepOfChangingBuild =>
         \A i \in DependentInstances(CurNode.id) :
            /\ i \in DOMAIN inst_mem' /\ inst_mem'[i] = inst_mem[i]
            /\ i \in DOMAIN db_instances' /\ db_instances'[i] = db_instances[i]
            /\ ReadPath(fs', store', inst_mem[i].output_path)
                 = ReadPath(fs, store, inst_mem[i].output_path)
            /\ \A k \in DOMAIN node_values :
                  k[1] = inst_mem[i].node_id =>
                     k \in DOMAIN node_values' /\ node_values'[k] = node_values[k]]_vars

\* ===================================================================
\* Properties of a restart (SpecRestart)
\* ===================================================================
\* The daemon has been stopped and started again in this step.
IsRestartStep == ev'.kind = "restart"

\* The node ids that have a row in nodes.
RegisteredIds == {r.id : r \in nodes}

\* C24: after a restart the in-memory index lists, for every registered
\* node, exactly the instance rows of the store, and every file watch that a
\* registered node had before the restart is armed again.
C24_RestartRebuildsIndexAndWatches ==
    [][IsRestartStep =>
         /\ \A n \in RegisteredIds :
               /\ n \in DOMAIN node_instances'
               /\ SeqToSet(node_instances'[n])
                    = {i \in DOMAIN db_instances' : db_instances'[i].node_id = n}
               /\ \A i \in SeqToSet(node_instances'[n]) : inst_mem'[i] = db_instances'[i]
         /\ \A f \in DOMAIN watched_files :
               \A n \in SeqToSet(watched_files[f]) \cap RegisteredIds :
                  /\ f \in DOMAIN watched_files'
                  /\ n \in SeqToSet(watched_files'[f])]_vars

\* ===================================================================
\* Properties of unregister_node and the watches (SpecWatch)
\* ===================================================================
\* unregister_node has returned.
IsUnregistered == ev.kind = "unregister"

\* C25: after unregister_node(n), n is an interested node of no path of the
\* file-watch registry, and no tail watch of n remains, whether the
\* instances' file inputs were spelled relative or absolute.
C25_UnregisterLeavesNoWatch ==
    IsUnregistered =>
        /\ \A f \in DOMAIN watched_files : ev.node_id \notin SeqToSet(watched_files[f])
        /\ ~(tail_state.watched /\ tail_state.node_id = Some(ev.node_id))

\* ===================================================================
\* Properties of unregister_node and the output files (Spec)
\* ===================================================================
\* unregister_node returns in this step.
IsUnregisterStep == ev'.kind = "unregister"

\* C26: after unregister_node(n) nothing is left at the output path of any
\* former instance of n, whether the output was a Replace-mode symlink or an
\* Append, Prepend or Concatenate regular file.
C26_UnregisterRemovesOutputs ==
    [][IsUnregisterStep =>
         \A i \in ev'.instances : fs'[db_instances[i].output_path].kind = "none"]_vars

\* ===================================================================
\* Properties of a change of a program's own script (SpecScript)
\* ===================================================================
\* handle_file_change(n, path) has taken its first step for a path that is
\* n's config path and resolves to n's program script.
IsScriptConfigChange ==
    /\ ev.kind = "file_change"
    /\ ~IsNone(ev.pre_node)
    /\ ev.pre_node.val.config_path = ev.file_path
    /\ ev.pre_node.val.config.node_type = "program"
    /\ ~IsNone(ev.pre_node.val.config.script_path)
    /\ ResolvePath(ev.pre_node.val.config.script_path.val) = ResolvePath(ev.file_path)

\* C27: a change of a path that is both n's config path and n's program
\* script does not reload the config (node row and instance rows stay) and
\* rebuilds n's instances as an ordinary input change does.
C27_ScriptChangeRebuildsWithoutReload ==
    IsScriptConfigChange =>
        /\ get_node(nodes, ev.node_id) = ev.pre_node
        /\ \A i \in DOMAIN ev.pre_instances :
              i \in DOMAIN db_instances /\ db_instances[i] = ev.pre_instances[i]
        /\ (ev.node_id \in DOMAIN node_instances /\ node_instances[ev.node_id] # <<>>)
              => /\ pc = "build"
                 /\ frame.op = "file_change"
                 /\ frame.todo = node_instances[ev.node_id]

\* ===================================================================
\* Properties of trigger ingestion (SpecWebhook)
\* ===================================================================
\* trigger_webhook has been called for a delivery.
IsDelivery == ev.kind \in {"triggered", "raise_trigger"}

\* C28: every delivery gets a queue record of its own: the call stores a
\* pending row, also when another delivery for the same node arrived in the
\* same millisecond, and no two rows share an id (so marking one processed
\* marks no other).
C28_EveryDeliveryRecorded ==
    /\ IsDelivery =>
          /\ ev.kind = "triggered"
          /\ \E k \in 1..Len(webhook_triggers) :
                webhook_triggers[k].id = ev.id /\ ~webhook_triggers[k].processed
    /\ \A j, k \in 1..Len(webhook_triggers) :
          webhook_triggers[j].id = webhook_triggers[k].id => j = k

\* ===================================================================
\* Properties of the drain loop over every recorded trigger (SpecPending)
\* ===================================================================
\* C29: under a fairly scheduled drain loop every recorded trigger is
\* eventually marked processed, whether or not its target node id is
\* registered and whatever the type of that node.
C29_EveryTriggerEventuallyProcessed ==
    \A id \in PendingTriggerIds : PendingTrigger(id) ~> ProcessedTrigger(id)

\* ===================================================================
\* SpecTailFull: a tailed log that already holds about max_lines lines when
\* the watch is armed with tail_lines of the default or of max_lines, then
\* appended to and polled
\* ===================================================================
\* n lines "a", each terminated.
FullContent(n) == [k \in 1..(2 * n) |-> IF k % 2 = 1 THEN "a" ELSE "\n"]

FullLineCounts == {TailMaxLines - 1, TailMaxLines}
FullFiles ==
    {[exists |-> TRUE, inode |-> 1, appended |-> 0, content |-> FullContent(n)] :
       n \in FullLineCounts}
FullTailLines == {TailLinesDefault, TailMaxLines}

InitTailFull ==
    /\ DaemonInit([f \in AllFiles |-> CfgHello("replace")])
    /\ ExecInit
    /\ WebhookInit
    /\ \E file \in FullFiles : TailInit(file)

NextTailFull ==
    \/ \E n \in TailNodeIds : \E t \in FullTailLines :
          add_file_watch(n, "handle_tail_change", t)
    \/ \E b \in TailBytes : FileAppend(b)
    \/ _check_file_changes

SpecTailFull == InitTailFull /\ [][NextTailFull]_vars

\* -------------------------------------------------------------------
\* Properties checked under SpecTailFull
\* -------------------------------------------------------------------
\* The lines a poll has at hand: the buffer before it, its last entry
\* continued by the first segment read, then every further segment, the last
\* one only if it is not empty.
PollLines ==
    LET lines0 == Split(ev.read)
        joins  == ev.pre.buffer # <<>>
        joined == IF joins
                  THEN [ev.pre.buffer EXCEPT ![Len(ev.pre.buffer)] = @ \o lines0[1]]
                  ELSE ev.pre.buffer
        lines  == IF joins THEN Tail(lines0) ELSE lines0
        kept   == IF lines # <<>> /\ lines[Len(lines)] = <<>> THEN AllButLast(lines) ELSE lines
    IN joined \o kept

\* C30: after every poll of a watched file the rolling buffer holds at most
\* max_lines (1000) entries, and after a poll that read a delta they are the
\* most recent of the lines at hand, also when the delta ends with an
\* unterminated fragment.
C30_BufferCappedAfterPoll ==
    ev.kind = "poll" =>
        /\ Len(tail_state.buffer) <= TailMaxLines
        /\ (ev.read # <<>> => tail_state.buffer = LastN(PollLines, TailMaxLines))

\* -------------------------------------------------------------------
\* Further properties checked under SpecTail
\* -------------------------------------------------------------------
\* A poll that found the path absent.
IsAbsentPoll == ev.kind = "poll" /\ ev.absent

\* C31 as stated: after a poll that found the file absent, truncated below
\* the offset or replaced, and read nothing, the offset is 0 and the inode is
\* unknown; a poll that found one of the three and read data read it from 0.
C31_ResetToZeroAndUnknown ==
    (IsAbsentPoll \/ IsTruncationPoll \/ IsRotationPoll) =>
        /\ ev.read_from = 0 \/ ev.read = <<>>
        /\ ev.read = <<>> =>
              /\ tail_state.last_position = 0
              /\ tail_state.last_inode = NoneV

\* C31 (amended): a poll that found the file absent leaves offset 0 and the
\* inode unknown; a poll that found it truncated below the offset leaves
\* offset 0 and the inode as it was, and reads nothing; a poll that found it
\* replaced reads from offset 0 and leaves the new file's inode.
C31_ResetBeforeRead ==
    /\ IsAbsentPoll =>
          /\ tail_state.last_position = 0
          /\ tail_state.last_inode = NoneV
          /\ ev.read = <<>>
    /\ IsTruncationPoll =>
          /\ tail_state.last_position = 0
          /\ tail_state.last_inode = ev.pre.last_inode
          /\ ev.read = <<>>
    /\ IsRotationPoll =>
          /\ ev.read_from = 0
          /\ tail_state.last_position = Len(ev.file.content)
          /\ tail_state.last_inode = Some(ev.file.inode)

\* A file read up to byte 10 is deleted and polled: the offset and the known
\* inode are dropped.
C31_Witness ==
    /\ IsAbsentPoll
    /\ ev.pre.last_position = 10
    /\ ev.pre.last_inode = Some(1)
    /\ tail_state.last_position = 0
    /\ tail_state.last_inode = NoneV

\* ===================================================================
\* SpecShared: two Template nodes whose instances take the same file
\* /cwd/d.txt as input; the nodes registered and unregistered on the control
\* loop while the observer thread delivers modify events for the file and
\* the event loop runs what the thread submitted
\* ===================================================================
SharedConfigs == {TemplateFile, WebhookFile}
SharedInput == [n \in {"name"} |-> <<"/cwd/d.txt">>]
ModifiedPaths == {"/cwd/d.txt", "/cwd/other.txt"}

InitShared ==
    /\ DaemonInit([f \in AllFiles |-> CfgFileInput])
    /\ ExecInit
    /\ WebhookInit
    /\ TailInit(NoFile)

NextShared ==
    \/ \E f \in SharedConfigs : register_node(f)
    \/ unregister_node(_generate_node_id(TemplateFile))
    \/ create_instance(_generate_node_id(TemplateFile), "out1", SharedInput)
    \/ create_instance(_generate_node_id(WebhookFile), "out2", SharedInput)
    \/ _build_template_instance
    \/ create_symlink_step1
    \/ create_symlink_step2
    \/ BuildFinish
    \/ \E f \in ModifiedPaths : on_modified(f)
    \/ on_modified_lookup
    \/ on_modified_next
    \/ RunSubmitted

SpecShared == InitShared /\ [][NextShared]_vars

\* -------------------------------------------------------------------
\* Properties checked under SpecShared
\* -------------------------------------------------------------------
\* The node ids the registry holds for a path.
Interested(file_path) ==
    IF file_path \in DOMAIN watched_files THEN SeqToSet(watched_files[file_path]) ELSE {}

\* How often a node id occurs in a sequence of node ids.
Occurrences(q, n) == Cardinality({k \in 1..Len(q) : q[k] = n})

\* C32: handling a modify event on a path of the registry never fails, and
\* when on_modified returns, every node that was interested in the path when
\* the event arrived and still is has had exactly one handle_file_change
\* unit submitted for it (and no node more than one); an event on an
\* untracked path submits nothing.
C32_OneUnitPerInterestedNode ==
    /\ notifier.pc # "raised"
    /\ ev.kind = "on_modified_return" =>
          /\ \A n \in SeqToSet(ev.seen) \cap Interested(ev.file_path) :
                Occurrences(ev.sent, n) = 1
          /\ \A n \in SeqToSet(ev.sent) : Occurrences(ev.sent, n) = 1
    /\ (ev.kind = "on_modified" /\ ~ev.tracked) => notifier.pc = "idle"

\* ===================================================================
\* SpecFileDefault: a Template node whose file input "name" has the default
\* path /cwd/d.txt; instances that give the input (relative or absolute
\* spelling) or leave it to the default
\* ===================================================================
FileDefaultChoices == FileInputChoices \cup {EmptyFn}

InitFileDefault ==
    /\ DaemonInit([f \in AllFiles |-> CfgFileDefault])
    /\ ExecInit
    /\ WebhookInit
    /\ TailInit(NoFile)

NextFileDefault ==
    \/ register_node(TemplateFile)
    \/ \E o \in OutPaths, iv \in FileDefaultChoices :
          create_instance(_generate_node_id(TemplateFile), o, iv)
    \/ _build_template_instance
    \/ create_symlink_step1
    \/ create_symlink_step2
    \/ BuildFinish

SpecFileDefault == InitFileDefault /\ [][NextFileDefault]_vars

\* -------------------------------------------------------------------
\* Properties checked under SpecFileDefault
\* -------------------------------------------------------------------
\* create_instance has returned an instance id after its initial build.
IsCreated == ev.kind = "built" /\ ev.op = "create"

\* C33: after a successful create_instance, for every input of the node
\* declared as a file whose resolved value is a path, given explicitly or
\* taken from the default, the resolved absolute path is in the watch
\* registry with the node's id as an interested node.
C33_FileInputsWatchedAfterCreate ==
    IsCreated =>
        \A k \in 1..Len(ev.config.inputs) :
            LET spec == ev.config.inputs[k] IN
            (/\ spec.type = "file"
             /\ spec.name \in DOMAIN ev.context
             /\ ~IsNone(ev.context[spec.name]))
            => ev.node_id \in Interested(ResolvePath(PathOf(ev.context[spec.name].val)))

\* ===================================================================
\* SpecPartial: a Program node that declares the outputs summary.txt and
\* result.json; its process writes at most one of them and exits
\* ===================================================================
PartialOutputs == {"summary.txt", "result.json"}
PartialTexts == {<<"r1">>, <<"r2">>}

InitPartial ==
    /\ DaemonInit([f \in AllFiles |-> CfgProgramTwo])
    /\ ExecInit
    /\ WebhookInit
    /\ TailInit(NoFile)

\* The process writes one file into an empty $LT_OUTPUT_DIR.
ProcessWritesOne(name, content) ==
    /\ tmpdir.files = EmptyFn
    /\ ProcessWrites(name, content)

NextPartial ==
    \/ register_node(ProgramFile)
    \/ \E o \in OutPaths :
          create_instance(_generate_node_id(ProgramFile), o, [n \in {"name"} |-> <<"Isaac">>])
    \/ rebuild_node_instances(_generate_node_id(ProgramFile))
    \/ _build_program_instance
    \/ \E n \in PartialOutputs, c \in PartialTexts : ProcessWritesOne(n, c)
    \/ \E code \in ExitCodes : ProcessExits(code)
    \/ wait_for_timeout
    \/ process_wait
    \/ communicate_returns
    \/ _build_program_outputs
    \/ BuildFinish

SpecPartial == InitPartial /\ [][NextPartial]_vars

\* -------------------------------------------------------------------
\* Properties checked under SpecPartial
\* -------------------------------------------------------------------
\* A program build has succeeded whose process exited with code 0 having
\* written some, not all, of the declared outputs.
IsPartialBuild ==
    /\ ev.kind = "built"
    /\ ev.config.node_type = "program"
    /\ \E k \in 1..Len(ev.config.outputs) : ev.config.outputs[k] \notin DOMAIN ev.produced

\* The NodeValue of an output was written by the build that has just ended.
StoredByBuild(name) ==
    /\ <<ev.node_id, name>> \in DOMAIN node_values
    /\ \/ <<ev.node_id, name>> \notin DOMAIN ev.pre_nv
       \/ node_values[<<ev.node_id, name>>] # ev.pre_nv[<<ev.node_id, name>>]

StopPid == CHOOSE p \in Pids : \A q \in Pids : p <= q

\* The daemon of the start process runs: start() has returned and no signal
\* has arrived.
DaemonUp == starters[StopPid].pc = "running"

\* What the daemon does while it runs.
DaemonWork ==
    \/ register_node(WebhookFile)
    \/ create_instance(_generate_node_id(WebhookFile), "out1", EmptyFn)
    \/ _build_webhook_instance
    \/ BuildFinish
    \/ \E d \in Payloads : trigger_webhook(_generate_node_id(WebhookFile), d)
    \/ _process_webhooks
    \/ _process_webhook_trigger
    \/ \E n \in TailNodeIds : add_file_watch(n, "handle_tail_change", TailLinesDefault)
    \/ FileAppend("\n")
    \/ _check_file_changes

InitStop ==
    /\ DaemonInit([f \in AllFiles |-> CfgWebhook("replace")])
    /\ ExecInit
    /\ WebhookInit
    /\ TailInit([exists |-> TRUE, inode |-> 1, appended |-> 0, content |-> <<"a">>])

NextStop ==
    \/ \E port \in Ports : cli_start(StopPid, port)
    \/ daemon_start(StopPid)
    \/ daemon_write_pid(StopPid)
    \/ daemon_stop(StopPid)
    \/ DaemonUp /\ DaemonWork

SpecStop == InitStop /\ [][NextStop]_vars

\* -------------------------------------------------------------------
\* Properties checked under SpecStop
\* -------------------------------------------------------------------
\* The shutdown of the daemon has ended: the stop task has ended and the
\* process has exited.
IsStopped == starters[StopPid].pc = "exited"

TailModes == {"append", "prepend", "replace", "concatenate"}
TailTransforms == {NoneV, Some("keep_b")}
DeliveredLines == {<<<<"a">>>>, <<<<"b">>>>, <<<<"a">>, <<"b">>>>, <<<<"b">>, <<"b">>>>}

InitTailChange ==
    /\ \E m \in TailModes, t \in TailTransforms :
          DaemonInit([f \in AllFiles |->
                        IF f = TailConfigFile THEN CfgTail(m, t) ELSE CfgHello("replace")])
    /\ ExecInit
    /\ WebhookInit
    /\ TailInit(NoFile)

\* create_instance with an output path no instance has yet.
CreateOwnOutput(node_id, output_path) ==
    /\ \A i \in DOMAIN inst_mem : inst_mem[i].output_path # output_path
    /\ create_instance(node_id, output_path, EmptyFn)

\* The tail watcher delivers lines while every output has room for them.
DeliverLines(node_id, new_lines) ==
    /\ \A p \in OutPaths :
          LenAfterWrite(fs, store, p, TailContent(new_lines)) <= MaxContentLen
    /\ handle_tail_change(node_id, new_lines)

NextTailChange ==
    \/ \E f \in {TailConfigFile, TemplateFile} : register_node(f)
    \/ \E f \in {TailConfigFile, TemplateFile}, o \in OutPaths :
          CreateOwnOutput(_generate_node_id(f), o)
    \/ _build_tail_instance
    \/ _build_template_instance
    \/ create_symlink_step1
    \/ create_symlink_step2
    \/ BuildFinish
    \/ \E f \in {TailConfigFile, TemplateFile}, l \in DeliveredLines :
          DeliverLines(_generate_node_id(f), l)

SpecTailChange == InitTailChange /\ [][NextTailChange]_vars

\* -------------------------------------------------------------------
\* Properties checked under SpecTailChange
\* -------------------------------------------------------------------
\* What a reader of a path finds, as text: nothing for a path that is absent.
TextAt(fsv, storev, p) ==
    LET r == ReadPath(fsv, storev, p) IN IF r.seen = "text" THEN r.text ELSE <<>>

\* C36: handle_tail_change on a Tail node in Append mode leaves every
\* instance's output equal to its prior content followed by the lines to
\* write, in order, each newline-terminated; in Prepend mode the block comes
\* before the prior content; when the list of lines to write is empty, when
\* the mode is Replace or Concatenate, or when the node is not a Tail node,
\* no output changes; build_count and the cached NodeValues never change.
C36_TailChangeWritesIncrementally ==
    ev.kind = "tail_change" =>
        LET node  == get_node(nodes, ev.node_id)
            mode  == node.val.config.output_mode
            ids   == IF ev.node_id \in DOMAIN node_instances
                     THEN node_instances[ev.node_id] ELSE <<>>
            block == TailContent(ev.lines)
            writes == ev.is_tail /\ ev.lines # <<>> /\ mode \in {"append", "prepend"}
        IN
        /\ inst_mem = ev.pre_inst
        /\ db_instances = ev.pre_db
        /\ node_values = ev.pre_nv
        /\ ~writes => (fs = ev.pre_fs /\ store = ev.pre_store)
        /\ writes =>
              \A k \in 1..Len(ids) :
                 LET p == inst_mem[ids[k]].output_path IN
                 TextAt(fs, store, p) =
                    IF mode = "append"
                    THEN TextAt(ev.pre_fs, ev.pre_store, p) \o block
                    ELSE block \o TextAt(ev.pre_fs, ev.pre_store, p)

\* ===================================================================
\* SpecTailShared: two Tail nodes arm and disarm a tail watch on the same
\* file; the file is appended to and polled
\* ===================================================================
SharedTailNodes == {_generate_node_id(TailConfigFile), _generate_node_id(WebhookFile)}

NextTailShared ==
    \/ \E n \in SharedTailNodes : add_file_watch(n, "handle_tail_change", TailLinesDefault)
    \/ \E n \in SharedTailNodes : remove_file_watch(n)
    \/ \E b \in TailBytes : FileAppend(b)
    \/ \E i \in 1..MaxInode : FileCreate(i)
    \/ _check_file_changes

SpecTailShared == InitTail /\ [][NextTailShared]_vars

\* -------------------------------------------------------------------
\* Properties checked under SpecTailShared
\* -------------------------------------------------------------------
\* C37: the nodes that receive a file's new lines are the nodes that have an
\* armed tail watch on the file, each under its own id, and a node's watch
\* stays armed until that node disarms it: while some node has armed the
\* file and not disarmed it, the file is watched.
C37_TailWatchPerNode ==
    /\ (ev.kind = "poll" /\ ev.new_lines # <<>>) =>
          /\ SeqToSet(ev.delivered_to) = hist.tail.armed
          /\ Len(ev.delivered_to) = Cardinality(hist.tail.armed)
    /\ hist.tail.armed # {} => tail_state.watched

\* ===================================================================
\* SpecRace: the Template node and its instances; a change of a watched file
\* rebuilds them, and unregister_node runs before, after or while the
\* rebuild is suspended
\* ===================================================================
RaceNode == _generate_node_id(TemplateFile)

NextRace ==
    \/ register_node(TemplateFile)
    \/ \E o \in OutPaths, iv \in InputChoices : create_instance(RaceNode, o, iv)
    \/ /\ handle_file_change(RaceNode, "/cwd/d.txt")
       /\ UNCHANGED loop_queue
    \/ unregister_node(RaceNode)
    \/ unregister_node_in_flight(RaceNode)
    \/ _build_template_instance
    \/ create_symlink_step1
    \/ create_symlink_step2
    \/ BuildFinish

SpecRace == Init /\ [][NextRace]_vars

\* -------------------------------------------------------------------
\* Properties checked under SpecRace
\* -------------------------------------------------------------------
\* The build during which unregister_node ran has ended.
RaceOver ==
    /\ pc = "idle"
    /\ ev.kind \in {"built", "raise"}
    /\ ev.op = "file_change"
    /\ ev.inst \in hist.race.instances

\* C38: when unregister_node(n) has run while a change-triggered rebuild of n
\* was suspended, then once the rebuild has ended the node_instances table
\* holds no row of n and none of the output paths of n's former instances
\* is a symlink.
C38_UnregisterWinsOverBuild ==
    RaceOver =>
        /\ \A i \in DOMAIN db_instances : db_instances[i].node_id # ev.node_id
        /\ \A p \in hist.race.outputs : ~IsSymlink(fs, p)

\* ===================================================================
\* SpecReload: the Template node's config file is edited between its valid
\* text and a text that fails validation; the node is registered, instances
\* are created and the watcher's change handling reloads the node
\* ===================================================================
ReloadConfigs == {CfgHello("replace"), CfgInvalid}

NextReload ==
    \/ \E c \in ReloadConfigs : EditConfig(TemplateFile, c)
    \/ register_node(TemplateFile)
    \/ \E o \in OutPaths, iv \in InputChoices :
          create_instance(_generate_node_id(TemplateFile), o, iv)
    \/ /\ handle_file_change(_generate_node_id(TemplateFile), TemplateFile)
       /\ UNCHANGED loop_queue
    \/ _build_template_instance
    \/ create_symlink_step1
    \/ create_symlink_step2
    \/ BuildFinish

SpecReload == Init /\ [][NextReload]_vars

\* -------------------------------------------------------------------
\* Properties checked under SpecReload
\* -------------------------------------------------------------------
\* A step of handle_file_change that reloads a node whose new config text
\* fails to parse or validate.
IsFailedReload ==
    /\ ev'.kind = "file_change"
    /\ ev'.reloaded
    /\ ev'.file_path \in DOMAIN cfg_files
    /\ parse_content_raises(cfg_files[ev'.file_path])

\* C39: a reload whose new config fails to parse or validate logs the
\* failure and leaves the registered node, its instance records, the index,
\* the outputs and the NodeValues as they were.
C39_FailedReloadKeepsNode ==
    [][IsFailedReload =>
          /\ Log(ev'.node_id, "error", "Failed to reload node") \in logs'
          /\ nodes' = nodes
          /\ db_instances' = db_instances
          /\ node_instances' = node_instances
          /\ fs' = fs
          /\ node_values' = node_values]_vars

\* ===================================================================
\* SpecCreateFail: the Template node whose input "name" is a file input
\* without a default; instances that give the file or omit it, at a path or
\* at a path that is a directory
\* ===================================================================
CreateFailChoices == FileInputChoices \cup {EmptyFn}

InitCreateFail ==
    /\ DaemonInit([f \in AllFiles |-> CfgFileInput])
    /\ ExecInit
    /\ WebhookInit
    /\ TailInit(NoFile)

NextCreateFail ==
    \/ register_node(TemplateFile)
    \/ \E o \in FileChangeOutPaths, iv \in CreateFailChoices :
          create_instance(_generate_node_id(TemplateFile), o, iv)
    \/ _build_template_instance
    \/ create_symlink_step1
    \/ create_symlink_step2
    \/ BuildFinish

SpecCreateFail == InitCreateFail /\ [][NextCreateFail]_vars

\* -------------------------------------------------------------------
\* Properties checked under SpecCreateFail
\* -------------------------------------------------------------------
\* create_instance has raised the exception of its initial build.
IsFailedCreate == ev.kind = "raise" /\ ev.op = "create"

\* The resolved paths of the values an instance gives for the inputs its
\* node declares as files.
FileInputPaths(config, input_values) ==
    {ResolvePath(PathOf(input_values[n])) :
        n \in {x \in DOMAIN input_values :
                 \E k \in 1..Len(config.inputs) :
                    config.inputs[k].name = x /\ config.inputs[k].type = "file"}}

\* C40: after a create_instance whose initial build raised, the store has no
\* record of the instance, the in-memory index does not list it, and the
\* node is interested in a file the instance named only if another listed
\* instance of the node names that file.
C40_FailedCreateLeavesNothing ==
    IsFailedCreate =>
        LET listed == IF ev.node_id \in DOMAIN node_instances
                      THEN SeqToSet(node_instances[ev.node_id]) ELSE {}
        IN
        /\ ev.inst \notin DOMAIN db_instances
        /\ ev.inst \notin listed
        /\ \A p \in FileInputPaths(ev.config, ev.input_values) :
              ev.node_id \in Interested(p) =>
                 \E i \in listed \ {ev.inst} :
                    p \in FileInputPaths(ev.config, inst_mem[i].input_values)

====
